---------------------------- MODULE Spec2Model ----------------------------
(***************************************************************************)
(* MedCortex retrieval-and-verification core.                              *)
(*                                                                         *)
(*   Spec        the session-backed FAISS / BM25 stores, ingestion, the    *)
(*               searches and the simple path of QueryPipeline.answer      *)
(*   SpecRRF     QueryPipeline._reciprocal_rank_fusion as a function of    *)
(*               its two input lists                                       *)
(*   SpecVerify  AnswerVerifier.verify_claim / verify_answer, one          *)
(*               classifier call per step                                  *)
(*   SpecAnswer  QueryPipeline.answer with Orchestrator.answer_iteratively *)
(*               and the standard RAG path, one sub-question per step      *)
(*   SpecComplex QueryPipeline._is_complex_query on a question             *)
(*   SpecClean   GeneratorClient.clean_output on a raw model output, and   *)
(*               on its own result                                         *)
(*   SpecEmbed   IngestionPipeline._embed_with_retry on the chunks of a    *)
(*               document                                                  *)
(*   SpecDecompose  Orchestrator.decompose_query on a generator response   *)
(*                                                                         *)
(* Strings of the stores, the fusion and the verifier are sequences of     *)
(* character codes (naturals); code 0 is the blank, every other code a     *)
(* lower-case letter, on which str.lower() changes nothing.  Questions are *)
(* sequences of one-character strings, model outputs sequences of tokens.  *)
(***************************************************************************)
EXTENDS Integers, Sequences, FiniteSets, TLC

VARIABLES
    session,        \* st.session_state["faiss_store"]: embeddings, metadata, dim
    stores,         \* per pipeline object: FaissStore.index/.dim, BM25Store.bm25/.chunk_map
    ingested_docs,  \* st.session_state["ingested_docs"] (doc ids, in order)
    ret,            \* what the last call returned or raised
    semantic_hits,  \* _reciprocal_rank_fusion: first argument
    keyword_hits,   \* _reciprocal_rank_fusion: second argument
    rrf_keys,       \* rrf_scores.keys() in insertion order
    rrf_scores,     \* rrf_scores: key -> accumulated score (an exact fraction)
    fused_hits,     \* the list _reciprocal_rank_fusion returns
    hit_map,        \* hit_map: key -> hit, as the list of values in key order
    rrf_rank,       \* the rank the running scoring loop has reached
    rrf_pc,         \* "semantic", "keyword": in that loop; "sort"; "return"
    entry,          \* the verifier method called: "verify_claim" | "verify_answer"
    source_chunks,  \* len(source_chunks)
    claims,         \* verify_answer: len(claims) that deconstruct_claims returned
    claim_i,        \* verify_answer: 1-based position of the claim being verified
    outcomes,       \* verify_claim: what the classifier did on each chunk consulted
    idx,            \* verify_claim: loop index (0-based, next chunk to consult)
    best_status,    \* verify_claim: best_status
    best_chunk_idx, \* verify_claim: best_chunk_idx
    calls,          \* verify_claim: chunk indexes handed to the classifier, in order
    result,         \* the dict the last verify_claim returned (None before)
    verification_results, \* verify_answer: verification_results
    ver_pc,         \* "start" | "loop" | "return" | "done"
    use_orchestrator,     \* QueryPipeline.answer: the argument of the top-level call
    orch_calls,           \* Orchestrator.answer_iteratively: invocations so far
    orch_depth,           \* orchestrator frames on the call stack, at their deepest
    routed_questions,     \* answer_iteratively: what route_query returned
    sub_i,                \* answer_iteratively: sub-questions answered so far
    intermediate_answers, \* answer_iteratively: intermediate_answers
    all_sources,          \* answer_iteratively: all_sources
    simple_run,           \* QueryPipeline.answer: the steps of the standard RAG path
    answer_ret,           \* what QueryPipeline.answer returned or raised
    ans_pc,         \* "call" | "route" | "loop" | "synthesize" | "simple" | "done"
    trajectory,           \* answer_iteratively: the "type" of each trajectory entry
    decompose_run,        \* decompose_query: its response and what it returned
    verify_call,          \* answer_iteratively: arguments of verifier.verify_answer
    asked,          \* _is_complex_query: question
    complexity,     \* _is_complex_query: its counts and result (None before)
    raw_answer,     \* GeneratorClient.generate: raw_answer
    cleaned,        \* what clean_output returned for it (None before)
    cleaned_again,  \* what clean_output returned for that (None before)
    current_chunks,  \* _embed_with_retry: current_chunks
    max_embed_chars, \* _embed_with_retry: max_embed_chars
    attempt,         \* _embed_with_retry: attempt
    embed_calls,     \* the embed_texts calls so far: the ceiling and the chunks of each
    embed_pc         \* "try" | "fallback" | "returned" | "raised"

storeVars == <<session, stores, ingested_docs, ret>>
rrfVars ==
    <<semantic_hits, keyword_hits, rrf_keys, rrf_scores, hit_map, rrf_rank, fused_hits,
      rrf_pc>>
verVars == <<entry, source_chunks, claims, claim_i, outcomes, idx, best_status,
             best_chunk_idx, calls, result, verification_results, ver_pc>>
embedVars == <<current_chunks, max_embed_chars, attempt, embed_calls, embed_pc>>
\* the arguments, locals and results of the calls modelled after the verifier:
\* QueryPipeline.answer with the orchestrator, _is_complex_query, clean_output,
\* _embed_with_retry
callVars ==
    <<use_orchestrator, orch_calls, orch_depth, routed_questions, sub_i,
      intermediate_answers, all_sources, simple_run, answer_ret, ans_pc,
      trajectory, decompose_run, verify_call,
      asked, complexity, raw_answer, cleaned, cleaned_again, embedVars>>
vars == <<storeVars, rrfVars, verVars, callVars>>

\* Optional values: None is the empty tuple, any other value v is <<v>>.
None == <<>>
Some(v) == <<v>>
Get(o) == o[1]

-----------------------------------------------------------------------------
(* Generic helpers *)

Range(s) == {s[i] : i \in DOMAIN s}

Min(a, b) == IF a <= b THEN a ELSE b

\* s[:n]
Prefix(s, n) == SubSeq(s, 1, Min(n, Len(s)))

\* all orderings of the set S, as sequences
Perms(S) ==
    {p \in [1..Cardinality(S) -> S] : \A i, j \in DOMAIN p : i # j => p[i] # p[j]}

\* the first m of n rows in every possible order
TopLists(n, m) ==
    {p \in [1..m -> 1..n] : \A i, j \in 1..m : i # j => p[i] # p[j]}

\* s without repetitions, each element where it occurs last
RECURSIVE DedupKeepingLast(_)
DedupKeepingLast(s) ==
    IF s = <<>> THEN <<>>
    ELSE LET rest == DedupKeepingLast(Tail(s))
         IN IF Head(s) \in Range(rest) THEN rest ELSE <<Head(s)>> \o rest

\* list(dict.fromkeys(s))
RECURSIVE Dedup(_)
Dedup(s) ==
    IF s = <<>> THEN <<>>
    ELSE LET front == Dedup(SubSeq(s, 1, Len(s) - 1))
             last == s[Len(s)]
         IN IF last \in Range(front) THEN front ELSE Append(front, last)

-----------------------------------------------------------------------------
(* Bounds and input domains of the store model *)

MaxChunks == 4        \* chunks the session may hold
MaxBatch == 3         \* chunks one ingested document may produce
MaxDocs == 2          \* documents uploaded in one session
MaxTopK == 2          \* top_k of a direct search call
MaxAnswerChunks == 2  \* QueryPipeline.answer is run on sessions up to this size

Docs == 1..MaxDocs
Dims == {1, 2}
Whitespace == {0}
Pipelines == {"ingestion", "query"}

\* Settings.embedding_dim (EMBEDDING_DIM): one of the dimensions
embedding_dim == CHOOSE d \in Dims : TRUE

\* the allowed_doc_ids arguments: None, or a list of doc ids (possibly empty)
AllowedLists ==
    {None} \cup
    {Some(s) : s \in {t \in UNION {[1..n -> Docs] : n \in 0..MaxDocs} :
                        \A i, j \in DOMAIN t : i < j => t[i] < t[j]}}

\* Python truthiness of the allowed_doc_ids argument
Truthy(allowed) == allowed # None /\ Get(allowed) # <<>>

-----------------------------------------------------------------------------
(* Chunking and tokenisation *)

\* str.split(): the maximal runs of non-blank characters (cur: the run being read)
RECURSIVE Split(_, _)
Split(text, cur) ==
    IF text = <<>> THEN (IF cur = <<>> THEN <<>> ELSE <<cur>>)
    ELSE IF Head(text) \in Whitespace
         THEN (IF cur = <<>> THEN <<>> ELSE <<cur>>) \o Split(Tail(text), <<>>)
         ELSE Split(Tail(text), Append(cur, Head(text)))

\* BM25Store._tokenize: text.lower().split()
Tokenize(text) == Split(text, <<>>)

\* str.strip()
RECURSIVE LStrip(_)
LStrip(text) ==
    IF text # <<>> /\ Head(text) \in Whitespace THEN LStrip(Tail(text)) ELSE text

RECURSIVE RStrip(_)
RStrip(text) ==
    IF text # <<>> /\ text[Len(text)] \in Whitespace
    THEN RStrip(SubSeq(text, 1, Len(text) - 1)) ELSE text

Strip(text) == LStrip(RStrip(text))

\* the segments the text splitter cuts its input into, before it strips them
RawSegments == {<<0, 1, 0, 2>>, <<0>>, <<>>}

\* chunk_pages: the splitter strips every segment and drops those left empty
ChunkTexts == {Strip(t) : t \in RawSegments} \ {<<>>}

\* the chunk lists chunk_pages can return for one document (possibly none)
ChunkLists == UNION {[1..n -> ChunkTexts] : n \in 0..MaxBatch}

-----------------------------------------------------------------------------
(* FaissStore and BM25Store over the shared session entry *)

\* the metadata dict of one chunk (pipeline.py builds it, faiss_store.py stores it)
Meta(id, doc_id, chunk_index, text, source_uri) ==
    [id |-> id, doc_id |-> doc_id, page_num |-> 0, chunk_index |-> chunk_index,
     text |-> text, source_uri |-> source_uri]

\* a search hit: the chunk's metadata plus the one score key the store adds
Hit(m, score_key) ==
    [id |-> m.id, doc_id |-> m.doc_id, page_num |-> m.page_num,
     chunk_index |-> m.chunk_index, text |-> m.text, source_uri |-> m.source_uri,
     score_key |-> score_key]

\* np.array(embeddings, dtype=float32) raises on rows of different lengths
Ragged(embeddings) ==
    \E i, j \in DOMAIN embeddings : embeddings[i] # embeddings[j]

\* faiss.IndexFlatIP(dim) holding ntotal normalised vectors
Index(dim, ntotal) == Some([d |-> dim, ntotal |-> ntotal])

\* FaissStore._init_from_session; .metadata aliases the session's metadata list
InitFromSession(sess) ==
    IF sess.embeddings # <<>>
    THEN IF Ragged(sess.embeddings)
         THEN [raised |-> TRUE, dim |-> sess.dim, index |-> None]
         ELSE [raised |-> FALSE, dim |-> sess.embeddings[1],
               index |-> Index(sess.embeddings[1], Len(sess.embeddings))]
    ELSE [raised |-> FALSE, dim |-> sess.dim, index |-> None]

HasTokens(m) == Tokenize(m.text) # <<>>

\* valid_metadata: the chunks whose tokenised text is not empty
ValidMetadata(metadata) == SelectSeq(metadata, HasTokens)

\* BM25Okapi(valid_corpus)
BM25Okapi(valid_metadata) ==
    Some([i \in DOMAIN valid_metadata |-> Tokenize(valid_metadata[i].text)])

\* BM25Store._load
BM25Load(sess) ==
    IF sess.metadata # <<>> /\ ValidMetadata(sess.metadata) # <<>>
    THEN [bm25 |-> BM25Okapi(ValidMetadata(sess.metadata)),
          chunk_map |-> ValidMetadata(sess.metadata)]
    ELSE [bm25 |-> None, chunk_map |-> <<>>]

\* an add_chunks that leaves the keyword index as it was
AddChunksWithoutRebuild(st, sess) == [bm25 |-> st.bm25, chunk_map |-> st.chunk_map]

\* BM25Store.add_chunks: rebuild from the session's metadata, keep the old index
\* when there is nothing to index
BM25AddChunks(st, sess) ==
    IF sess.metadata # <<>> /\ ValidMetadata(sess.metadata) # <<>>
    THEN [bm25 |-> BM25Okapi(ValidMetadata(sess.metadata)),
          chunk_map |-> ValidMetadata(sess.metadata)]
    ELSE [bm25 |-> st.bm25, chunk_map |-> st.chunk_map]

\* an upsert_chunks that accepts vectors of any length beside the stored ones
UpsertWithoutDimCheck(st, sess, metas, dim) ==
    LET all_embeddings == sess.embeddings \o [i \in DOMAIN metas |-> dim]
    IN [raised |-> FALSE, count |-> Len(metas),
        session |-> [embeddings |-> all_embeddings,
                     metadata |-> sess.metadata \o metas, dim |-> dim],
        index |-> Index(dim, Len(all_embeddings)), dim |-> dim]

\* FaissStore.upsert_chunks(records): metas are the records' metadata, dim the
\* length of each record's vector.  The session lists are extended first; the
\* index is rebuilt from all stored embeddings, which raises when they are ragged.
UpsertChunks(st, sess, metas, dim) ==
    IF metas = <<>>
    THEN [raised |-> FALSE, count |-> 0, session |-> sess,
          index |-> st.index, dim |-> st.dim]
    ELSE LET all_embeddings == sess.embeddings \o [i \in DOMAIN metas |-> dim]
             all_metadata == sess.metadata \o metas
         IN IF Ragged(all_embeddings)
            THEN [raised |-> TRUE, count |-> 0,
                  session |-> [sess EXCEPT !.embeddings = all_embeddings,
                                           !.metadata = all_metadata],
                  index |-> st.index, dim |-> st.dim]
            ELSE [raised |-> FALSE, count |-> Len(metas),
                  session |-> [embeddings |-> all_embeddings,
                               metadata |-> all_metadata,
                               dim |-> all_embeddings[1]],
                  index |-> Index(all_embeddings[1], Len(all_embeddings)),
                  dim |-> all_embeddings[1]]

\* the loop of FaissStore.search over the candidate rows (1-based here)
RECURSIVE FaissScan(_, _, _, _, _)
FaissScan(idxs, metadata, allowed, top_k, hits) ==
    IF idxs = <<>> THEN hits
    ELSE LET i == Head(idxs)
         IN IF i < 1 \/ i > Len(metadata)
            THEN FaissScan(Tail(idxs), metadata, allowed, top_k, hits)
            ELSE IF Truthy(allowed) /\ metadata[i].doc_id \notin Range(Get(allowed))
            THEN FaissScan(Tail(idxs), metadata, allowed, top_k, hits)
            ELSE LET more == Append(hits, Hit(metadata[i], "score"))
                 IN IF Len(more) >= top_k THEN more
                    ELSE FaissScan(Tail(idxs), metadata, allowed, top_k, more)

\* search_k = top_k * 3 if allowed_doc_ids else top_k
SearchK(top_k, allowed) == IF Truthy(allowed) THEN top_k * 3 ELSE top_k

\* what self.index.search(q, min(search_k, ntotal)) can return: that many rows,
\* by decreasing similarity to some query vector
FaissCandidates(st, top_k, allowed) ==
    IF st.index = None THEN {<<>>}
    ELSE TopLists(Get(st.index).ntotal,
                  Min(SearchK(top_k, allowed), Get(st.index).ntotal))

\* a search that reads the session's metadata whatever the index holds
FaissSearchAllMetadata(st, metadata, idxs, top_k, allowed) ==
    FaissScan([i \in DOMAIN metadata |-> i], metadata, allowed, top_k, <<>>)

\* FaissStore.search; idxs are the rows index.search returned
FaissSearch(st, metadata, idxs, top_k, allowed) ==
    IF st.index = None THEN <<>>
    ELSE IF Get(st.index).ntotal = 0 THEN <<>>
    ELSE FaissScan(idxs, metadata, allowed, top_k, <<>>)

\* the loop of BM25Store.search over top_indices
RECURSIVE BM25Scan(_, _, _, _, _)
BM25Scan(idxs, chunk_map, allowed, top_k, hits) ==
    IF idxs = <<>> THEN hits
    ELSE LET i == Head(idxs)
         IN IF i \notin DOMAIN chunk_map
            THEN BM25Scan(Tail(idxs), chunk_map, allowed, top_k, hits)
            ELSE IF Truthy(allowed) /\ chunk_map[i].doc_id \notin Range(Get(allowed))
            THEN BM25Scan(Tail(idxs), chunk_map, allowed, top_k, hits)
            ELSE LET more == Append(hits, Hit(chunk_map[i], "bm25_score"))
                 IN IF Len(more) >= top_k THEN more
                    ELSE BM25Scan(Tail(idxs), chunk_map, allowed, top_k, more)

\* what sorted(range(len(scores)), key=scores, reverse=True)[:search_k] can be
BM25Candidates(st, top_k, allowed) ==
    IF st.bm25 = None THEN {<<>>}
    ELSE TopLists(Len(Get(st.bm25)),
                  Min(SearchK(top_k, allowed), Len(Get(st.bm25))))

\* BM25Store.search; top_indices are the corpus rows by decreasing BM25 score
BM25Search(st, top_indices, top_k, allowed) ==
    IF st.bm25 = None \/ Len(st.chunk_map) = 0 THEN <<>>
    ELSE BM25Scan(top_indices, st.chunk_map, allowed, top_k, <<>>)

FaissRows(st) == IF st.index = None THEN 0 ELSE Get(st.index).ntotal

-----------------------------------------------------------------------------
(* QueryPipeline._reciprocal_rank_fusion *)

RRF_K == 60       \* default of parameter k
KeyChars == 100   \* characters of text used as the fallback identity key
FusedCap == 25    \* hits kept after the sort

\* Scores are exact fractions [n, d] in lowest terms (the code adds floats).
RECURSIVE GCD(_, _)
GCD(a, b) == IF b = 0 THEN a ELSE GCD(b, a % b)

Zero == [n |-> 0, d |-> 1]

\* f + 1/x
AddReciprocal(f, x) ==
    LET g == GCD(f.d, x)
        num == f.n * (x \div g) + (f.d \div g)
        den == f.d * (x \div g)
        h == GCD(num, den)
    IN [n |-> num \div h, d |-> den \div h]

\* a < b
Less(a, b) ==
    LET g == GCD(a.d, b.d) IN a.n * (b.d \div g) < b.n * (a.d \div g)

\* hit.get("id"), or the first characters of the text when the id is missing or
\* empty (both are the empty string here)
HitKey(hit) ==
    IF hit.id # <<>> THEN hit.id ELSE Prefix(hit.text, KeyChars)

\* position of key in the dict's key list, 0 when absent
KeyPos(keys, key) ==
    IF key \in Range(keys) THEN CHOOSE i \in DOMAIN keys : keys[i] = key ELSE 0

\* The two dicts hit_map and rrf_scores share their keys: d.keys in insertion
\* order, d.hit[i] and d.score[i] the values stored under d.keys[i].
EmptyDicts == [keys |-> <<>>, hit |-> <<>>, score |-> <<>>]

\* a scoring step that stores the last reciprocal rank instead of adding it
ScoreHitOverwriting(d, hit, rank, k, replace) ==
    LET key == HitKey(hit)
        pos == KeyPos(d.keys, key)
    IN IF pos = 0
       THEN [keys |-> Append(d.keys, key),
             hit |-> Append(d.hit, hit),
             score |-> Append(d.score, AddReciprocal(Zero, k + rank))]
       ELSE [keys |-> d.keys,
             hit |-> IF replace THEN [d.hit EXCEPT ![pos] = hit] ELSE d.hit,
             score |-> [d.score EXCEPT ![pos] = AddReciprocal(Zero, k + rank)]]

\* a scoring step that stores the hit under its key in both loops
ScoreHitReplacing(d, hit, rank, k, replace) ==
    LET key == HitKey(hit)
        pos == KeyPos(d.keys, key)
    IN IF pos = 0
       THEN [keys |-> Append(d.keys, key),
             hit |-> Append(d.hit, hit),
             score |-> Append(d.score, AddReciprocal(Zero, k + rank))]
       ELSE [keys |-> d.keys,
             hit |-> [d.hit EXCEPT ![pos] = hit],
             score |-> [d.score EXCEPT ![pos] = AddReciprocal(d.score[pos], k + rank)]]

\* one iteration of a scoring loop; replace: hit_map[hit_id] = hit is done even
\* when the key is already there (the semantic loop)
ScoreHit(d, hit, rank, k, replace) ==
    LET key == HitKey(hit)
        pos == KeyPos(d.keys, key)
    IN IF pos = 0
       THEN [keys |-> Append(d.keys, key),
             hit |-> Append(d.hit, hit),
             score |-> Append(d.score, AddReciprocal(Zero, k + rank))]
       ELSE [keys |-> d.keys,
             hit |-> IF replace THEN [d.hit EXCEPT ![pos] = hit] ELSE d.hit,
             score |-> [d.score EXCEPT ![pos] = AddReciprocal(d.score[pos], k + rank)]]

\* for rank, hit in enumerate(hits, start=1): ..., the iterations lo..hi in
\* order (split in halves to keep the evaluation shallow)
RECURSIVE ScoreRange(_, _, _, _, _, _)
ScoreRange(d, hits, lo, hi, k, replace) ==
    IF lo > hi THEN d
    ELSE IF lo = hi THEN ScoreHit(d, hits[lo], lo, k, replace)
    ELSE LET mid == (lo + hi) \div 2
             front == ScoreRange(d, hits, lo, mid, k, replace)
         IN ScoreRange(front, hits, mid + 1, hi, k, replace)

ScoreHits(d, hits, k, replace) == ScoreRange(d, hits, 1, Len(hits), k, replace)

\* sorted(rrf_scores.keys(), key=lambda x: rrf_scores[x], reverse=True), as
\* positions in the key list.  The sort is stable: a key comes behind every key
\* of greater score and behind the earlier keys of equal score.
SortedPlace(score, i) ==
    1 + Cardinality({j \in DOMAIN score : Less(score[i], score[j])})
      + Cardinality({j \in DOMAIN score : j < i /\ score[j] = score[i]})

SortedIds(d) ==
    [place \in DOMAIN d.keys |->
        CHOOSE i \in DOMAIN d.keys : SortedPlace(d.score, i) = place]

\* the two scoring loops
RRFDicts(semantic, keyword, k) ==
    ScoreHits(ScoreHits(EmptyDicts, semantic, k, TRUE), keyword, k, FALSE)

\* [hit_map[hit_id] for hit_id in sorted_ids[:25]]
\* a return statement without the [:25] slice
FusedUncapped(d) == [i \in DOMAIN d.keys |-> d.hit[SortedIds(d)[i]]]

FusedOf(d) ==
    LET ids == Prefix(SortedIds(d), FusedCap) IN [i \in DOMAIN ids |-> d.hit[ids[i]]]

ReciprocalRankFusion(semantic, keyword, k) == FusedOf(RRFDicts(semantic, keyword, k))

-----------------------------------------------------------------------------
(* Reranker.rerank and the pipelines *)

TopK == 6            \* Settings.top_k (TOP_K)
AnswerSearchK == 25  \* top_k of the two searches QueryPipeline.answer runs

\* Reranker.rerank: a list no longer than top_k is returned as it is; a longer
\* one is sorted by rerank score (order: the candidates by decreasing score)
Rerank(candidates, top_k, order) ==
    IF candidates = <<>> THEN <<>>
    ELSE IF Len(candidates) <= top_k THEN candidates
    ELSE [i \in 1..top_k |-> candidates[order[i]]]

\* upload_to_cos: the URI of the object stored for the document
SourceUri(doc_id) == <<"s3", doc_id>>

\* uuid4(): an identifier not in use yet (the smallest one)
UsedDocs == {session.metadata[i].doc_id : i \in DOMAIN session.metadata}
               \cup Range(ingested_docs)
FreshDoc == IF \E d \in Docs : d \notin UsedDocs
            THEN CHOOSE d \in Docs : d \notin UsedDocs /\ \A e \in Docs : e < d => e \in UsedDocs
            ELSE 0
FreshId(i) == <<Len(session.metadata) + i>>

\* the FaissStore and the BM25Store a pipeline constructor builds from the session
NewStores(sess) ==
    [index |-> InitFromSession(sess).index, dim |-> InitFromSession(sess).dim,
     bm25 |-> BM25Load(sess).bm25, chunk_map |-> BM25Load(sess).chunk_map]

\* what the last call did: its arguments, what it returned or that it raised, the
\* last step it reached, and for answer the source chunks it gave the verifier
NoRet ==
    [op |-> "none", pipeline |-> "", top_k |-> 0, allowed |-> None,
     hits |-> <<>>, keyword |-> <<>>, fused |-> <<>>, sources |-> <<>>,
     raised |-> FALSE, reached |-> "", doc_id |-> 0, dim |-> 0, count |-> 0,
     verifier_chunks |-> <<>>]

StoreInit ==
    /\ session = [embeddings |-> <<>>, metadata |-> <<>>, dim |-> embedding_dim]
    /\ stores = [p \in Pipelines |->
                    NewStores([embeddings |-> <<>>, metadata |-> <<>>,
                               dim |-> embedding_dim])]
    /\ ingested_docs = <<>>
    /\ ret = NoRet

\* get_pipelines on a cache miss: both pipelines are constructed from the session
\* as it is now.  A FaissStore constructor that raises leaves the cache as it was.
GetPipelines ==
    /\ ret.op = "none"
    /\ \/ /\ InitFromSession(session).raised
          /\ ret' = [NoRet EXCEPT !.op = "get_pipelines", !.raised = TRUE]
          /\ UNCHANGED stores
       \/ /\ ~InitFromSession(session).raised
          /\ stores' = [p \in Pipelines |-> NewStores(session)]
          /\ ret' = [NoRet EXCEPT !.op = "get_pipelines"]
    /\ UNCHANGED <<session, ingested_docs, rrfVars, verVars, callVars>>

\* the writes of ingest_pdf: upsert_chunks, then add_chunks unless upsert raised
IngestWrites(st, sess, metas, dim) ==
    LET up == UpsertChunks(st, sess, metas, dim)
        bm == IF up.raised THEN [bm25 |-> st.bm25, chunk_map |-> st.chunk_map]
              ELSE BM25AddChunks(st, up.session)
    IN [raised |-> up.raised, count |-> up.count, session |-> up.session,
        store |-> [index |-> up.index, dim |-> up.dim,
                   bm25 |-> bm.bm25, chunk_map |-> bm.chunk_map]]

\* One upload handled by upload_section: IngestionPipeline.ingest_pdf for a new
\* document, then the append to ingested_docs when it returned.
IngestPdf ==
    /\ ret.op = "none"
    /\ FreshDoc # 0
    /\ \E chunks \in ChunkLists, dim \in Dims :
         LET doc_id == FreshDoc
             metas == [i \in DOMAIN chunks |->
                          Meta(FreshId(i), doc_id, i - 1, chunks[i], SourceUri(doc_id))]
             w == IngestWrites(stores["ingestion"], session, metas, dim)
             call == [NoRet EXCEPT !.op = "ingest_pdf", !.pipeline = "ingestion",
                                   !.doc_id = doc_id, !.dim = dim]
         IN /\ Len(session.metadata) + Len(chunks) <= MaxChunks
            /\ \/ \* chunk_pages returned nothing: return 0
                  /\ chunks = <<>>
                  /\ ingested_docs' = Append(ingested_docs, doc_id)
                  /\ ret' = [call EXCEPT !.reached = "chunk_pages"]
                  /\ UNCHANGED <<session, stores>>
               \/ \* the embedding call raised: nothing was written
                  /\ chunks # <<>>
                  /\ ret' = [call EXCEPT !.raised = TRUE, !.reached = "embed"]
                  /\ UNCHANGED <<session, stores, ingested_docs>>
               \/ \* upsert_chunks raised after extending the session lists
                  /\ chunks # <<>>
                  /\ w.raised
                  /\ session' = w.session
                  /\ stores' = [stores EXCEPT !["ingestion"] = w.store]
                  /\ ret' = [call EXCEPT !.raised = TRUE, !.reached = "upsert_chunks"]
                  /\ UNCHANGED ingested_docs
               \/ \* completed
                  /\ chunks # <<>>
                  /\ ~w.raised
                  /\ session' = w.session
                  /\ stores' = [stores EXCEPT !["ingestion"] = w.store]
                  /\ ingested_docs' = Append(ingested_docs, doc_id)
                  /\ ret' = [call EXCEPT !.count = w.count, !.reached = "add_chunks"]
    /\ UNCHANGED <<rrfVars, verVars, callVars>>

\* FaissStore.search on the query pipeline's store
FaissSearchCall ==
    /\ ret.op = "none"
    /\ \E top_k \in 1..MaxTopK, allowed \in AllowedLists :
         \E idxs \in FaissCandidates(stores["query"], top_k, allowed) :
            ret' = [NoRet EXCEPT !.op = "faiss_search", !.pipeline = "query",
                                 !.top_k = top_k, !.allowed = allowed,
                                 !.hits = FaissSearch(stores["query"], session.metadata,
                                                      idxs, top_k, allowed)]
    /\ UNCHANGED <<session, stores, ingested_docs, rrfVars, verVars, callVars>>

\* BM25Store.search on the query pipeline's store
BM25SearchCall ==
    /\ ret.op = "none"
    /\ \E top_k \in 1..MaxTopK, allowed \in AllowedLists :
         \E top_indices \in BM25Candidates(stores["query"], top_k, allowed) :
            ret' = [NoRet EXCEPT !.op = "bm25_search", !.pipeline = "query",
                                 !.top_k = top_k, !.allowed = allowed,
                                 !.hits = BM25Search(stores["query"], top_indices,
                                                     top_k, allowed)]
    /\ UNCHANGED <<session, stores, ingested_docs, rrfVars, verVars, callVars>>

-----------------------------------------------------------------------------
(* AnswerVerifier.verify_claim and verify_answer *)

MaxSourceChunks == 3  \* source chunks handed to the verifier
MaxClaims == 2        \* claims deconstruct_claims extracts from one answer

\* Raw classifier responses, as lists of words.
Responses ==
    {<<"Supports">>, <<"Refutes">>, <<"Not", "Mentioned">>, <<"support">>,
     <<"Refutes", "not", "Supports">>, <<>>}

\* what one generate_from_prompt call can do: return a response, or raise
Raise == [raised |-> TRUE, response |-> <<>>]
ClassifierOutcomes ==
    {[raised |-> FALSE, response |-> r] : r \in Responses} \cup {Raise}

\* str.upper() on the words the responses are made of
Upper(word) ==
    CASE word \in {"Supports", "supports", "SUPPORTS"} -> "SUPPORTS"
      [] word \in {"support", "Support", "SUPPORT"} -> "SUPPORT"
      [] word \in {"Refutes", "refutes", "REFUTES"} -> "REFUTES"
      [] word \in {"Not", "not", "NOT"} -> "NOT"
      [] word \in {"Mentioned", "mentioned", "MENTIONED"} -> "MENTIONED"
      [] OTHER -> word

\* response.strip().upper()
Normalise(response) == [i \in DOMAIN response |-> Upper(response[i])]

\* "SUPPORTS" in response or response.startswith("SUPPORT")
SaysSupports(response) ==
    \/ \E i \in DOMAIN response : response[i] = "SUPPORTS"
    \/ response # <<>> /\ response[1] \in {"SUPPORT", "SUPPORTS"}

\* "REFUTES" in response or response.startswith("REFUTE")
SaysRefutes(response) ==
    \/ \E i \in DOMAIN response : response[i] = "REFUTES"
    \/ response # <<>> /\ response[1] \in {"REFUTE", "REFUTES"}

\* a loop body that goes on to the next chunk after a Supports
ClassifyStepWithoutBreak(status, chunk_idx, i, o) ==
    IF o.raised
    THEN [status |-> status, chunk_idx |-> chunk_idx, break |-> FALSE]
    ELSE IF SaysSupports(Normalise(o.response))
    THEN [status |-> "Supports",
          chunk_idx |-> IF status # "Supports" THEN i ELSE chunk_idx,
          break |-> FALSE]
    ELSE IF SaysRefutes(Normalise(o.response)) /\ status = "Not Mentioned"
    THEN [status |-> "Refutes", chunk_idx |-> i, break |-> FALSE]
    ELSE [status |-> status, chunk_idx |-> chunk_idx, break |-> FALSE]

\* a loop body that records every Refutes, not only the first
ClassifyStepLastRefutes(status, chunk_idx, i, o) ==
    IF o.raised
    THEN [status |-> status, chunk_idx |-> chunk_idx, break |-> FALSE]
    ELSE IF SaysSupports(Normalise(o.response))
    THEN [status |-> "Supports",
          chunk_idx |-> IF status # "Supports" THEN i ELSE chunk_idx,
          break |-> TRUE]
    ELSE IF SaysRefutes(Normalise(o.response))
    THEN [status |-> "Refutes", chunk_idx |-> i, break |-> FALSE]
    ELSE [status |-> status, chunk_idx |-> chunk_idx, break |-> FALSE]

\* One iteration of the loop of verify_claim on chunk i (0-based) with classifier
\* outcome o: the new best_status and best_chunk_idx, and whether the loop breaks.
ClassifyStep(status, chunk_idx, i, o) ==
    IF o.raised
    THEN [status |-> status, chunk_idx |-> chunk_idx, break |-> FALSE]
    ELSE IF SaysSupports(Normalise(o.response))
    THEN [status |-> "Supports",
          chunk_idx |-> IF status # "Supports" THEN i ELSE chunk_idx,
          break |-> TRUE]
    ELSE IF SaysRefutes(Normalise(o.response)) /\ status = "Not Mentioned"
    THEN [status |-> "Refutes", chunk_idx |-> i, break |-> FALSE]
    ELSE [status |-> status, chunk_idx |-> chunk_idx, break |-> FALSE]

\* verify_claim's answer to an empty source_chunks list
EmptyResult == [status |-> "Not Mentioned", chunk_index |-> -1, confidence |-> "0.0"]

\* the dict verify_claim returns after the loop
LoopResult(status, chunk_idx) ==
    [status |-> status, chunk_index |-> chunk_idx,
     confidence |-> IF status = "Supports" THEN "1.0" ELSE "0.5"]

\* an entry that names the first claim whatever claim was verified
AnswerEntryOfFirstClaim(claim, r) ==
    [claim |-> 1, status |-> r.status, chunk_index |-> r.chunk_index,
     confidence |-> r.confidence]

\* the entry verify_answer appends for a claim
AnswerEntry(claim, r) ==
    [claim |-> claim, status |-> r.status, chunk_index |-> r.chunk_index,
     confidence |-> r.confidence]

VerifyInit ==
    /\ entry \in {"verify_claim", "verify_answer"}
    /\ source_chunks \in 0..MaxSourceChunks
    /\ claims \in 0..MaxClaims
    /\ entry = "verify_claim" => claims = 1
    /\ claim_i = 1
    /\ outcomes = <<>>
    /\ idx = 0
    /\ best_status = "Not Mentioned"
    /\ best_chunk_idx = -1
    /\ calls = <<>>
    /\ result = None
    /\ verification_results = <<>>
    /\ ver_pc = "start"

\* the early returns of the method called
Begin ==
    /\ ver_pc = "start"
    /\ \/ /\ entry = "verify_claim"
          /\ source_chunks = 0
          /\ result' = Some(EmptyResult)
          /\ ver_pc' = "done"
       \/ /\ entry = "verify_answer"
          /\ source_chunks = 0 \/ claims = 0
          /\ result' = result
          /\ ver_pc' = "done"
       \/ /\ source_chunks > 0
          /\ entry = "verify_answer" => claims > 0
          /\ result' = result
          /\ ver_pc' = "loop"
    /\ UNCHANGED <<entry, source_chunks, claims, claim_i, outcomes, idx, best_status,
                   best_chunk_idx, calls, verification_results, storeVars, rrfVars, callVars>>

\* one iteration of verify_claim's loop: one classifier call
ClassifyChunk ==
    /\ ver_pc = "loop"
    /\ idx < source_chunks
    /\ \E o \in ClassifierOutcomes :
         LET step == ClassifyStep(best_status, best_chunk_idx, idx, o)
         IN /\ outcomes' = Append(outcomes, o)
            /\ calls' = Append(calls, idx)
            /\ best_status' = step.status
            /\ best_chunk_idx' = step.chunk_idx
            /\ idx' = IF step.break THEN idx ELSE idx + 1
            /\ ver_pc' = IF step.break THEN "return" ELSE "loop"
    /\ UNCHANGED <<entry, source_chunks, claims, claim_i, result, verification_results,
                   storeVars, rrfVars, callVars>>

\* verify_claim returns; verify_answer appends the result and takes the next claim
Return ==
    /\ \/ ver_pc = "return"
       \/ ver_pc = "loop" /\ idx = source_chunks
    /\ result' = Some(LoopResult(best_status, best_chunk_idx))
    /\ \/ /\ entry = "verify_claim"
          /\ ver_pc' = "done"
          /\ UNCHANGED <<claim_i, outcomes, idx, best_status, best_chunk_idx, calls,
                         verification_results>>
       \/ /\ entry = "verify_answer"
          /\ verification_results' =
                Append(verification_results,
                       AnswerEntry(claim_i, LoopResult(best_status, best_chunk_idx)))
          /\ \/ /\ claim_i < claims
                /\ claim_i' = claim_i + 1
                /\ outcomes' = <<>>
                /\ idx' = 0
                /\ best_status' = "Not Mentioned"
                /\ best_chunk_idx' = -1
                /\ calls' = <<>>
                /\ ver_pc' = "loop"
             \/ /\ claim_i = claims
                /\ ver_pc' = "done"
                /\ UNCHANGED <<claim_i, outcomes, idx, best_status, best_chunk_idx,
                               calls>>
    /\ UNCHANGED <<entry, source_chunks, claims, storeVars, rrfVars, callVars>>

VerifyIdle ==
    /\ entry = "verify_claim"
    /\ source_chunks = 0
    /\ claims = 1
    /\ claim_i = 1
    /\ outcomes = <<>>
    /\ idx = 0
    /\ best_status = "Not Mentioned"
    /\ best_chunk_idx = -1
    /\ calls = <<>>
    /\ result = None
    /\ verification_results = <<>>
    /\ ver_pc = "idle"

-----------------------------------------------------------------------------
(* _reciprocal_rank_fusion applied to given lists *)

MaxListLen == 2   \* length of an input list drawn from the pool
MaxShift == 2     \* how far the long keyword list is shifted against the semantic one

\* a text longer than the identity key: KeyChars equal characters, then c
LongText(c) == [i \in 1..(KeyChars + 1) |-> IF i <= KeyChars THEN 1 ELSE c]

\* a hit as the fusion reads it: its id (empty when missing), its text, and the
\* score key the store that produced it attached
FusionHit(id, text, score_key) == [id |-> id, text |-> text, score_key |-> score_key]

\* two chunks with ids, two without id whose texts agree on the first KeyChars
\* characters, one without id and a short text
PoolHits(score_key) ==
    {FusionHit(<<1>>, <<1>>, score_key), FusionHit(<<2>>, <<2>>, score_key),
     FusionHit(<<>>, LongText(1), score_key), FusionHit(<<>>, LongText(2), score_key),
     FusionHit(<<>>, <<3>>, score_key)}

PoolLists(score_key) == UNION {[1..n -> PoolHits(score_key)] : n \in 0..MaxListLen}

\* FusedCap hits with consecutive ids starting behind first
LongList(first, score_key) ==
    [i \in 1..FusedCap |-> FusionHit(<<KeyChars + first + i>>, <<1>>, score_key)]

RRFInit ==
    /\ \/ /\ semantic_hits \in PoolLists("score")
          /\ keyword_hits \in PoolLists("bm25_score")
       \/ /\ semantic_hits = LongList(0, "score")
          /\ keyword_hits \in {LongList(shift, "bm25_score") : shift \in 0..MaxShift}
    /\ rrf_keys = <<>>
    /\ rrf_scores = <<>>
    /\ hit_map = <<>>
    /\ rrf_rank = 1
    /\ fused_hits = <<>>
    /\ rrf_pc = "semantic"

\* the dicts of the running call
Dicts == [keys |-> rrf_keys, hit |-> hit_map, score |-> rrf_scores]

SetDicts(d) ==
    /\ rrf_keys' = d.keys
    /\ hit_map' = d.hit
    /\ rrf_scores' = d.score

\* for rank, hit in enumerate(semantic_hits, start=1): one iteration, or the end
\* of the loop
ScoreSemantic ==
    /\ rrf_pc = "semantic"
    /\ \/ /\ rrf_rank <= Len(semantic_hits)
          /\ SetDicts(ScoreHit(Dicts, semantic_hits[rrf_rank], rrf_rank, RRF_K, TRUE))
          /\ rrf_rank' = rrf_rank + 1
          /\ UNCHANGED rrf_pc
       \/ /\ rrf_rank > Len(semantic_hits)
          /\ rrf_rank' = 1
          /\ rrf_pc' = "keyword"
          /\ UNCHANGED <<rrf_keys, hit_map, rrf_scores>>
    /\ UNCHANGED <<semantic_hits, keyword_hits, fused_hits, storeVars, verVars, callVars>>

\* for rank, hit in enumerate(keyword_hits, start=1): one iteration, or the end
\* of the loop
ScoreKeyword ==
    /\ rrf_pc = "keyword"
    /\ \/ /\ rrf_rank <= Len(keyword_hits)
          /\ SetDicts(ScoreHit(Dicts, keyword_hits[rrf_rank], rrf_rank, RRF_K, FALSE))
          /\ rrf_rank' = rrf_rank + 1
          /\ UNCHANGED rrf_pc
       \/ /\ rrf_rank > Len(keyword_hits)
          /\ rrf_pc' = "sort"
          /\ UNCHANGED <<rrf_keys, hit_map, rrf_scores, rrf_rank>>
    /\ UNCHANGED <<semantic_hits, keyword_hits, fused_hits, storeVars, verVars, callVars>>

\* sorted_ids = sorted(...); return [hit_map[hit_id] for hit_id in sorted_ids][:25]
SortAndReturn ==
    /\ rrf_pc = "sort"
    /\ fused_hits' = FusedOf(Dicts)
    /\ rrf_pc' = "return"
    /\ UNCHANGED <<semantic_hits, keyword_hits, rrf_keys, hit_map, rrf_scores, rrf_rank,
                   storeVars, verVars, callVars>>

RRFIdle ==
    /\ semantic_hits = <<>>
    /\ keyword_hits = <<>>
    /\ rrf_keys = <<>>
    /\ rrf_scores = <<>>
    /\ hit_map = <<>>
    /\ rrf_rank = 1
    /\ fused_hits = <<>>
    /\ rrf_pc = "idle"

\* the call has returned to the Streamlit script, which runs on to its end; the
\* next user interaction starts the next call
Rerun ==
    /\ ret.op # "none"
    /\ ret' = NoRet
    /\ UNCHANGED <<session, stores, ingested_docs, rrfVars, verVars, callVars>>

StoreIdle ==
    /\ session = [embeddings |-> <<>>, metadata |-> <<>>, dim |-> embedding_dim]
    /\ stores = [p \in Pipelines |-> NewStores(session)]
    /\ ingested_docs = <<>>
    /\ ret = NoRet

-----------------------------------------------------------------------------
(* Orchestrator.decompose_query and Orchestrator.route_query *)

MaxRouted == 6        \* entries of the JSON array a routing response may hold
MaxLines == 6         \* usable lines a decomposition response may hold
MaxSubQuestions == 5  \* decompose_query: sub_questions[:5]
LineFeed == 10        \* "\n", in a text whose characters are numbers

\* An element of a parsed JSON array: an object (dict) with or without the keys
\* "question" and "type", or something else. A question is a string or a
\* number: [isstr |-> ..., v |-> its content].
Item(question, type) == [dict |-> TRUE, question |-> question, type |-> type]

\* One routing response of the generator, as route_query reads it: whether the
\* call raised; what the first bracket-balanced "[...]" of the response parses
\* to (None when the response has no such part); what the whole response
\* parses to. json.loads gives a list, an object, or neither ("invalid": a
\* scalar, or JSONDecodeError).
RouteResponses ==
    LET str(i) == [isstr |-> TRUE, v |-> i]
        \* the shapes of array element, for the element at position i
        Shapes(i) ==
            <<Item(Some(str(i)), Some("TEXT")), Item(Some(str(i)), Some("TABLE")),
              Item(Some(str(i)), Some("text")), Item(Some(str(i)), Some("OTHER")),
              Item(Some([isstr |-> FALSE, v |-> i]), Some("TEXT")),
              Item(Some(str(i)), None), Item(None, None),
              [dict |-> FALSE, question |-> None, type |-> None]>>
        ShapeIds == DOMAIN Shapes(1)
        \* every length up to MaxRouted with all elements of one shape, and the
        \* pairs of two shapes
        Arrays ==
            {[i \in 1..n |-> Shapes(i)[k]] : n \in 0..MaxRouted, k \in ShapeIds}
            \cup {<<Shapes(1)[k], Shapes(2)[l]>> : k, l \in ShapeIds}
        List(items) == [kind |-> "list", items |-> items]
        Object(item) == [kind |-> "object", items |-> <<item>>]
        Invalid == [kind |-> "invalid", items |-> <<>>]
        Response(array, whole) == [raised |-> FALSE, array |-> array, whole |-> whole]
    IN  \* generate_from_prompt raised
        {[raised |-> TRUE, array |-> None, whole |-> Invalid]}
        \* a bare JSON array (also what is left of a fenced one)
        \cup {Response(Some(List(a)), List(a)) : a \in Arrays}
        \* an array inside prose
        \cup {Response(Some(List(a)), Invalid) : a \in Arrays}
        \* malformed JSON between brackets; no brackets and no JSON at all
        \cup {Response(Some(Invalid), Invalid), Response(None, Invalid)}
        \* a single JSON object, without and with an (empty) array inside it
        \cup {Response(arr, Object(Shapes(1)[k])) :
                arr \in {None, Some(List(<<>>))},
                k \in {j \in ShapeIds : Shapes(1)[j].dict}}

\* A line of a decomposition response: lead characters of numbering, bullets
\* and blanks in front, then len characters. QuestionLine is a question of 11
\* characters with nothing in front; the other shapes are a blank line, and
\* "1. " before 8 and before 10 characters.
QuestionLine == [lead |-> 0, len |-> 11]
LineShapes ==
    {[lead |-> 0, len |-> 0], [lead |-> 3, len |-> 8], [lead |-> 3, len |-> 10],
     QuestionLine}

\* One decomposition response: whether the call raised, and the lines of the
\* response, each of them one of line_shapes
DecomposeResponses(line_shapes) ==
    {[raised |-> TRUE, lines |-> <<>>]}
    \cup {[raised |-> FALSE, lines |-> lines] :
            lines \in UNION {[1..n -> line_shapes] : n \in 0..MaxLines}}

\* decompose_query: what is in front of a line is stripped, the lines longer
\* than 10 characters are the sub-questions, the first MaxSubQuestions of them
\* returned; the query itself when the call raised or no line was left. The
\* sub-question read from line k of the response is written k.
DecomposeQuery(query, d) ==
    LET stripped == [k \in DOMAIN d.lines |-> [line |-> k, len |-> d.lines[k].len]]
        sub_questions == SelectSeq(stripped, LAMBDA line : line.len > 10)
    IN IF d.raised \/ sub_questions = <<>> THEN <<query>>
       ELSE [i \in 1..Min(Len(sub_questions), MaxSubQuestions) |->
               [isstr |-> TRUE, v |-> sub_questions[i].line]]

\* decompose_query called on the query (written 0) with the response of the run
DecomposeQueryCall ==
    /\ decompose_run.sub_questions = None
    /\ decompose_run' =
         [decompose_run EXCEPT
            !.sub_questions = Some(DecomposeQuery([isstr |-> TRUE, v |-> 0],
                                                  decompose_run.response))]
    /\ UNCHANGED <<storeVars, rrfVars, verVars, embedVars, use_orchestrator, orch_calls,
                   orch_depth, routed_questions, sub_i, intermediate_answers,
                   all_sources, simple_run, answer_ret, ans_pc, trajectory, verify_call,
                   asked, complexity, raw_answer, cleaned, cleaned_again>>

\* route_query on one routing response; d is the decomposition response the
\* fall-back would get
RouteQuery(query, r, d) ==
    LET sub_questions == DecomposeQuery(query, d)
        \* [{"question": sq, "type": "TEXT"} for sq in sub_questions]
        fallback ==
            [i \in DOMAIN sub_questions |-> Item(Some(sub_questions[i]), Some("TEXT"))]
        \* json.loads(response): a list is returned, an object in a list
        whole == IF r.whole.kind \in {"list", "object"} THEN r.whole.items
                 ELSE fallback
        \* str(item["type"]).upper()
        upper(type) == CASE type = "text" -> "TEXT"
                         [] type = "table" -> "TABLE"
                         [] type = "other" -> "OTHER"
                         [] OTHER -> type
        \* isinstance(item, dict) and "question" in item and "type" in item
        HasQuestionAndType(item) ==
            item.dict /\ item.question # None /\ item.type # None
        \* {"question": str(item["question"]), "type": str(item["type"]).upper()}
        Validated(item) ==
            Item(Some([isstr |-> TRUE, v |-> Get(item.question).v]),
                 Some(upper(Get(item.type))))
    IN IF r.raised THEN fallback
       ELSE IF r.array = None THEN whole
       ELSE IF Get(r.array).kind = "invalid" THEN fallback
       ELSE LET parsed == Get(r.array).items
                kept == SelectSeq(parsed, HasQuestionAndType)
                valid == [i \in DOMAIN kept |-> Validated(kept[i])]
            IN IF parsed = <<>> THEN whole
               ELSE IF valid # <<>> THEN valid
               ELSE parsed

-----------------------------------------------------------------------------
(* QueryPipeline.answer: the standard RAG path *)

\* a fused hit as the path reads it: its text and its source_uri
\* (texts of chunks are codes from 20 on, generated texts codes below 10)
RagHit(i) ==
    [id |-> i, text |-> <<20 + i>>, source_uri |-> SourceUri((i % MaxDocs) + 1)]

\* What the steps of the standard path can do on one run.
\* retrieval: the searches and the fusion raise, or give one of the lists of
\* fused hits. reranking: self.reranker.rerank raises,
\* returns nothing, or returns its ranking (by fused rank, or the reverse).
\* compression: self.gen.compress_context raises or returns a summary (maybe
\* ""). generation: self.gen.generate raises (its non-streaming call does,
\* after the streaming one failed) or returns an answer.
RagInputs(fused_lists) ==
    LET Retrievals ==
            {[raised |-> TRUE, hits |-> <<>>]}
            \cup {[raised |-> FALSE, hits |-> fused] : fused \in fused_lists}
        Orders(fused) ==
            {[i \in DOMAIN fused |-> i], [i \in DOMAIN fused |-> Len(fused) + 1 - i]}
        Rerankings(fused) ==
            {[raised |-> TRUE, hits |-> <<>>], [raised |-> FALSE, hits |-> <<>>]}
            \cup {[raised |-> FALSE, hits |-> Rerank(fused, TopK, order)] :
                    order \in Orders(fused)}
        Compressions ==
            {[raised |-> TRUE, summary |-> <<>>]}
            \cup {[raised |-> FALSE, summary |-> s] : s \in {<<>>, <<9>>}}
        Generations ==
            {[raised |-> TRUE, text |-> <<>>]}
            \cup {[raised |-> FALSE, text |-> t] : t \in {<<1>>, <<2>>}}
    IN UNION {{[retrieval |-> r, reranking |-> k, compression |-> c, generation |-> g] :
                 k \in Rerankings(r.hits), c \in Compressions, g \in Generations} :
              r \in Retrievals}

\* a rerank call that raised or came back empty is replaced by all fused hits
RerankedHitsUncut(fused, reranking) ==
    IF reranking.raised \/ reranking.hits = <<>> THEN fused ELSE reranking.hits

\* a rerank call that raised or came back empty is replaced by the first top_k
\* fused hits
RerankedHits(fused, reranking) ==
    IF reranking.raised \/ reranking.hits = <<>> THEN Prefix(fused, TopK)
    ELSE reranking.hits

\* Steps 1 to 7 of QueryPipeline.answer with these outcomes of its steps. The
\* result records the answer and the sources returned (or the step that
\* raised), and the lists the run built on its way: reranked_hits, the
\* effective_contexts handed to generate, and the contexts handed to
\* verifier.verify_answer as its source chunks. The verification of step 7
\* cannot change the result.
StandardRAG(steps) ==
    LET fused == steps.retrieval.hits
        reranked_hits == RerankedHits(fused, steps.reranking)
        contexts == [i \in DOMAIN reranked_hits |-> reranked_hits[i].text]
        sources == [i \in DOMAIN reranked_hits |-> reranked_hits[i].source_uri]
        \* a compression call that raised or came back empty is replaced by the
        \* contexts
        effective_contexts ==
            IF steps.compression.raised \/ steps.compression.summary = <<>> THEN contexts
            ELSE <<steps.compression.summary>>
        Raised(step, hits, effective) ==
            [raised |-> TRUE, step |-> step, answer |-> <<>>, sources |-> <<>>,
             reranked_hits |-> hits, effective_contexts |-> effective,
             verifier_chunks |-> <<>>]
    IN IF steps.retrieval.raised THEN Raised("search", <<>>, <<>>)
       ELSE IF steps.generation.raised
       THEN Raised("generate", reranked_hits, effective_contexts)
       ELSE [raised |-> FALSE, step |-> "return", answer |-> steps.generation.text,
             sources |-> Dedup(sources), reranked_hits |-> reranked_hits,
             effective_contexts |-> effective_contexts, verifier_chunks |-> contexts]

\* an answer whose searches first load the query stores from the session again
AnswerReloading ==
    /\ ret.op = "none"
    /\ FaissRows(stores["query"]) <= MaxAnswerChunks
    /\ Len(stores["query"].chunk_map) <= MaxAnswerChunks
    /\ \E allowed \in AllowedLists :
         \E idxs \in FaissCandidates(stores["query"], AnswerSearchK, allowed),
            top_indices \in BM25Candidates(stores["query"], AnswerSearchK, allowed) :
            LET semantic == FaissSearch(stores["query"], session.metadata,
                                        idxs, AnswerSearchK, allowed)
                keyword == BM25Search(stores["query"], top_indices,
                                      AnswerSearchK, allowed)
                fused == ReciprocalRankFusion(semantic, keyword, RRF_K)
                \* the runs of steps 3 to 7 on these fused hits
                runs == {StandardRAG(steps) :
                           steps \in {i \in RagInputs({fused}) : ~i.retrieval.raised}}
                \* what a run returns, or that it raised, and where
                endings == {[sources |-> run.sources, raised |-> run.raised,
                              step |-> run.step,
                              verifier_chunks |-> run.verifier_chunks] : run \in runs}
            IN \E run \in endings :
                 ret' = [NoRet EXCEPT
                           !.op = "answer", !.pipeline = "query",
                           !.top_k = AnswerSearchK, !.allowed = allowed,
                           !.hits = semantic, !.keyword = keyword,
                           !.fused = fused, !.sources = run.sources,
                           !.raised = run.raised, !.reached = run.step,
                           !.verifier_chunks = run.verifier_chunks]
    /\ stores' = [stores EXCEPT !["query"] = NewStores(session)]
    /\ UNCHANGED <<session, ingested_docs, rrfVars, verVars, callVars>>

\* QueryPipeline.answer on the simple path, on the query pipeline's stores:
\* the query embedding is returned, then the two searches, the fusion, the
\* rerank, the compression, the generation and the verification run as in
\* StandardRAG. No step writes what the stores read.
Answer ==
    /\ ret.op = "none"
    /\ FaissRows(stores["query"]) <= MaxAnswerChunks
    /\ Len(stores["query"].chunk_map) <= MaxAnswerChunks
    /\ \E allowed \in AllowedLists :
         \E idxs \in FaissCandidates(stores["query"], AnswerSearchK, allowed),
            top_indices \in BM25Candidates(stores["query"], AnswerSearchK, allowed) :
            LET semantic == FaissSearch(stores["query"], session.metadata,
                                        idxs, AnswerSearchK, allowed)
                keyword == BM25Search(stores["query"], top_indices,
                                      AnswerSearchK, allowed)
                fused == ReciprocalRankFusion(semantic, keyword, RRF_K)
                \* the runs of steps 3 to 7 on these fused hits
                runs == {StandardRAG(steps) :
                           steps \in {i \in RagInputs({fused}) : ~i.retrieval.raised}}
                \* what a run returns, or that it raised, and where
                endings == {[sources |-> run.sources, raised |-> run.raised,
                              step |-> run.step,
                              verifier_chunks |-> run.verifier_chunks] : run \in runs}
            IN \E run \in endings :
                 ret' = [NoRet EXCEPT
                           !.op = "answer", !.pipeline = "query",
                           !.top_k = AnswerSearchK, !.allowed = allowed,
                           !.hits = semantic, !.keyword = keyword,
                           !.fused = fused, !.sources = run.sources,
                           !.raised = run.raised, !.reached = run.step,
                           !.verifier_chunks = run.verifier_chunks]
    /\ UNCHANGED <<session, stores, ingested_docs, rrfVars, verVars, callVars>>

-----------------------------------------------------------------------------
(* QueryPipeline.answer and Orchestrator.answer_iteratively: the calls *)

\* the question's complexity decides, whatever flag the caller gave
UseIterativeIgnoringFlag(flag, complex) == complex

\* use_iterative: the caller's flag when one was given, or else what
\* _is_complex_query says of the question
UseIterative(flag, complex) == IF flag = None THEN complex ELSE Get(flag)

\* the sub-answers joined last to first
ConcatenatedBackwards(answers) ==
    LET RECURSIVE Back(_)
        Back(i) == IF i = 0 THEN <<>>
                   ELSE IF i = 1 THEN answers[1].answer
                   ELSE answers[i].answer \o <<10, 10>> \o Back(i - 1)
    IN Back(Len(answers))

\* "\n\n".join([a["answer"] for a in intermediate_answers])
Concatenated(answers) ==
    LET RECURSIVE Join(_)
        Join(n) == IF n = 0 THEN <<>>
                   ELSE IF n = 1 THEN answers[1].answer
                   ELSE Join(n - 1) \o <<LineFeed, LineFeed>> \o answers[n].answer
    IN Join(Len(answers))

\* verification_chunks: the "chunks" of the last sub-answer alone
VerificationChunksOfLast(answers) ==
    IF answers = <<>> THEN <<>> ELSE answers[Len(answers)].chunks

\* verification_chunks: the "chunks" of every sub-answer, in sub-question order
VerificationChunks(answers) ==
    LET RECURSIVE Extend(_)
        Extend(n) == IF n = 0 THEN <<>> ELSE Extend(n - 1) \o answers[n].chunks
    IN Extend(Len(answers))

\* an entry of the trajectory list (kept when Streamlit is there to show it)
Entry(step, type) == [step |-> step, type |-> type]

\* an exception out of answer_iteratively sends the call to the orchestrator
\* again
FallThroughRetrying ==
    /\ ans_pc' = "route"
    /\ routed_questions' = <<>>
    /\ sub_i' = 0
    /\ intermediate_answers' = <<>>
    /\ all_sources' = <<>>
    /\ trajectory' = <<>>
    /\ orch_calls' = orch_calls + 1
    /\ UNCHANGED orch_depth

\* pipeline.py 487-491: an exception out of answer_iteratively ends its frame
\* and the call goes on with the standard path
FallThrough ==
    /\ ans_pc' = "simple"
    /\ routed_questions' = <<>>
    /\ sub_i' = 0
    /\ intermediate_answers' = <<>>
    /\ all_sources' = <<>>
    /\ trajectory' = <<>>
    /\ UNCHANGED <<orch_calls, orch_depth>>

\* pipeline.py 452-475: the path is chosen; on the orchestrator path the
\* orchestrator is built (which may raise) and answer_iteratively is entered
EnterAnswer ==
    /\ ans_pc = "call"
    /\ \E complex \in BOOLEAN, built \in BOOLEAN :
         IF UseIterative(use_orchestrator, complex) /\ built
         THEN /\ ans_pc' = "route"
              /\ orch_calls' = orch_calls + 1
              /\ orch_depth' = 1
         ELSE /\ ans_pc' = "simple"
              /\ UNCHANGED <<orch_calls, orch_depth>>
    /\ UNCHANGED <<use_orchestrator, routed_questions, sub_i, intermediate_answers,
                   all_sources, simple_run, answer_ret, trajectory, decompose_run,
                   verify_call, asked, complexity, raw_answer, cleaned, cleaned_again,
                   storeVars, rrfVars, verVars, embedVars>>

\* orchestrator.py 234-273: the planning entry, then routed_questions =
\* self.route_query(query), then the decomposition entry. update_status calls
\* the caller's status callback, which may raise.
RouteQueryCall ==
    /\ ans_pc = "route"
    /\ \E callback_raised \in BOOLEAN :
         IF callback_raised THEN FallThrough
         ELSE /\ \E r \in RouteResponses, d \in DecomposeResponses({QuestionLine}) :
                   routed_questions' = RouteQuery([isstr |-> TRUE, v |-> 0], r, d)
              /\ trajectory' = <<Entry(0, "planning"), Entry(1, "decomposition")>>
              /\ ans_pc' = "loop"
              /\ UNCHANGED <<orch_calls, orch_depth, sub_i, intermediate_answers,
                             all_sources>>
    /\ UNCHANGED <<use_orchestrator, simple_run, answer_ret, decompose_run, verify_call,
                   asked, complexity, raw_answer, cleaned, cleaned_again, storeVars,
                   rrfVars, verVars, embedVars>>

\* orchestrator.py 278-360: one iteration of the loop over routed_questions. A
\* TABLE sub-question goes to the table pipeline, and its answer is its one
\* chunk; any other goes to self.query_pipeline.answer(...,
\* use_orchestrator=False), and its chunks are retrieved once more by
\* _get_source_chunks_for_query. What raises in the iteration, a status
\* callback included, leaves answer_iteratively.
SubQuestion ==
    /\ ans_pc = "loop"
    /\ sub_i < Len(routed_questions)
    /\ LET routed_q == routed_questions[sub_i + 1]
           \* routed_q.get("question", "") and routed_q.get("type", "TEXT")
           sub_question == IF routed_q.question = None THEN [isstr |-> TRUE, v |-> 0 - 1]
                           ELSE Get(routed_q.question)
           q_type == IF routed_q.type = None THEN "TEXT" ELSE Get(routed_q.type)
           \* what the searches find for the sub-question: the chunk that
           \* answers it
           hits == IF sub_question.v < 0 THEN <<>> ELSE <<RagHit(sub_question.v)>>
           \* TableQueryPipeline.answer: raises, or returns an answer with its
           \* sources, or an error message without sources
           TableAnswers ==
               {[raised |-> TRUE, answer |-> <<>>, sources |-> <<>>],
                [raised |-> FALSE, answer |-> <<1>>, sources |-> <<SourceUri(1)>>],
                [raised |-> FALSE, answer |-> <<2>>, sources |-> <<>>]}
           \* the runs of the standard path on the hits of the sub-question
           SubRuns == {StandardRAG(steps) : steps \in RagInputs({hits})}
           \* _get_source_chunks_for_query: the texts of the fused hits, or
           \* nothing when a search of it raised
           SourceChunks == {[i \in DOMAIN hits |-> hits[i].text], <<>>}
           \* the two trajectory entries, intermediate_answers.append(...),
           \* all_sources.extend(sources); nested: the call that answered
           \* entered the orchestrator itself
           Answered(answer, sources, chunks, nested) ==
               /\ intermediate_answers' =
                    Append(intermediate_answers,
                           [step |-> sub_i + 1, question |-> sub_question,
                            type |-> q_type, answer |-> answer, sources |-> sources,
                            chunks |-> chunks])
               /\ all_sources' = all_sources \o sources
               /\ trajectory' = trajectory \o <<Entry(sub_i + 2, "retrieval"),
                                               Entry(sub_i + 2, "intermediate_answer")>>
               /\ sub_i' = sub_i + 1
               /\ orch_calls' = IF nested THEN orch_calls + 1 ELSE orch_calls
               /\ orch_depth' = IF nested THEN orch_depth + 1 ELSE orch_depth
               /\ UNCHANGED <<routed_questions, ans_pc>>
       IN \E callback_raised \in BOOLEAN :
            IF callback_raised \/ ~routed_q.dict \/ ~sub_question.isstr
            THEN FallThrough
            ELSE IF q_type = "TABLE"
            THEN \E t \in TableAnswers :
                   IF t.raised THEN FallThrough
                   ELSE Answered(t.answer, t.sources,
                                 IF t.answer # <<>> THEN <<t.answer>> ELSE <<>>, FALSE)
            ELSE \E complex \in BOOLEAN, run \in SubRuns, chunks \in SourceChunks :
                   IF run.raised THEN FallThrough
                   ELSE Answered(run.answer, run.sources, chunks,
                                 UseIterative(Some(FALSE), complex))
    /\ UNCHANGED <<use_orchestrator, simple_run, answer_ret, decompose_run, verify_call,
                   asked, complexity, raw_answer, cleaned, cleaned_again, storeVars,
                   rrfVars, verVars, embedVars>>

\* orchestrator.py 404-566 and pipeline.py 476-486: the synthesis call, then
\* the verification of its answer against the chunks of the sub-answers (not
\* called without chunks), then the return. When the synthesis call, or a
\* status callback after it, raises, the concatenated sub-answers are
\* returned instead. callback: no status callback raises ("ok"), or the one
\* before the verification does, or the last one.
Synthesize ==
    /\ ans_pc = "loop"
    /\ sub_i = Len(routed_questions)
    /\ \E synthesis \in {[raised |-> TRUE, text |-> <<>>],
                          [raised |-> FALSE, text |-> <<1>>],
                          [raised |-> FALSE, text |-> <<2>>]},
          verification \in {"raised", "no claims", "results"},
          callback \in {"ok", "verifying", "ready"} :
         LET n == Len(routed_questions)
             verification_chunks == VerificationChunks(intermediate_answers)
             \* the entry of the results, of the skipped or of the failed
             \* verification
             result_entry ==
                 IF verification_chunks # <<>> /\ verification = "no claims" THEN <<>>
                 ELSE <<Entry(n + 4, "verification_result")>>
             verified == <<Entry(n + 3, "verification")>> \o result_entry
                           \o <<Entry(n + 5, "final_answer")>>
             sources == Dedup(Dedup(all_sources))
             Fallback(entries) ==
                 /\ answer_ret' = [raised |-> FALSE,
                                   answer |-> Concatenated(intermediate_answers),
                                   sources |-> sources, path |-> "concatenation"]
                 /\ trajectory' = trajectory \o entries
                                    \o <<Entry(n + 3, "final_answer")>>
         IN /\ IF synthesis.raised \/ callback = "verifying" THEN Fallback(<<>>)
               ELSE IF callback = "ready" THEN Fallback(verified)
               ELSE /\ answer_ret' = [raised |-> FALSE, answer |-> synthesis.text,
                                      sources |-> sources, path |-> "synthesis"]
                    /\ trajectory' = trajectory \o verified
            /\ verify_call' =
                 IF synthesis.raised \/ callback = "verifying" \/ verification_chunks = <<>>
                 THEN None
                 ELSE Some([answer |-> synthesis.text,
                            source_chunks |-> verification_chunks])
    /\ ans_pc' = "done"
    /\ UNCHANGED <<use_orchestrator, orch_calls, orch_depth, routed_questions, sub_i,
                   intermediate_answers, all_sources, simple_run, decompose_run, asked,
                   complexity, raw_answer, cleaned, cleaned_again, storeVars, rrfVars,
                   verVars, embedVars>>

\* pipeline.py 493-555: the standard path, at the top of the call; the fusion
\* hands on no hit, one hit, or more hits than Settings.top_k
StandardPath ==
    /\ ans_pc = "simple"
    /\ \E steps \in RagInputs({[i \in 1..n |-> RagHit(i)] : n \in {0, 1, TopK + 1}}) :
         LET run == StandardRAG(steps)
         IN /\ simple_run' = Some([steps |-> steps, run |-> run])
            /\ answer_ret' =
                 IF run.raised
                 THEN [raised |-> TRUE, answer |-> <<>>, sources |-> <<>>,
                       path |-> "standard"]
                 ELSE [raised |-> FALSE, answer |-> run.answer,
                       sources |-> run.sources, path |-> "standard"]
    /\ ans_pc' = "done"
    /\ UNCHANGED <<use_orchestrator, orch_calls, orch_depth, routed_questions, sub_i,
                   intermediate_answers, all_sources, trajectory, decompose_run,
                   verify_call, asked, complexity, raw_answer, cleaned, cleaned_again,
                   storeVars, rrfVars, verVars, embedVars>>

-----------------------------------------------------------------------------
(* QueryPipeline._is_complex_query *)

MaxPieces == 3   \* pieces a question is put together from
LongChars == 50  \* len(question) > 50

\* a question is a sequence of characters
complexity_indicators ==
    {<<" ", "a", "n", "d", " ">>, <<" ", "a", "l", "s", "o", " ">>,
     <<" ", "f", "u", "r", "t", "h", "e", "r", "m", "o", "r", "e", " ">>,
     <<" ", "a", "d", "d", "i", "t", "i", "o", "n", "a", "l", "l", "y", " ">>,
     <<" ", "w", "h", "a", "t", " ">>, <<" ", "h", "o", "w", " ">>,
     <<" ", "w", "h", "y", " ">>, <<" ", "c", "o", "m", "p", "a", "r", "e", " ">>,
     <<" ", "d", "i", "f", "f", "e", "r", "e", "n", "c", "e", " ">>,
     <<" ", "a", "s", " ", "d", "e", "s", "c", "r", "i", "b", "e", "d", " ">>,
     <<" ", "a", "c", "c", "o", "r", "d", "i", "n", "g", " ", "t", "o", " ">>,
     <<" ", "i", "n", " ", "p", "a", "p", "e", "r", " ">>,
     <<" ", "i", "n", " ", "d", "o", "c", "u", "m", "e", "n", "t", " ">>,
     <<" ", "s", "t", "a", "n", "d", "a", "r", "d", " ">>,
     <<" ", "t", "r", "e", "a", "t", "m", "e", "n", "t", " ">>,
     <<" ", "s", "i", "d", "e", " ", "e", "f", "f", "e", "c", "t", "s", " ">>,
     <<" ", "o", "u", "t", "c", "o", "m", "e", "s", " ">>}
question_words ==
    {<<"w", "h", "a", "t">>, <<"h", "o", "w">>, <<"w", "h", "y">>,
     <<"w", "h", "e", "n">>, <<"w", "h", "e", "r", "e">>, <<"w", "h", "i", "c", "h">>,
     <<"w", "h", "o">>}

\* str.lower() on the characters that occur
Lower(text) == [i \in DOMAIN text |-> IF text[i] = "W" THEN "w" ELSE text[i]]

\* pattern in text
Contains(text, pattern) ==
    \E i \in 1..(Len(text) - Len(pattern) + 1) :
        SubSeq(text, i, i + Len(pattern) - 1) = pattern

\* the questions: up to MaxPieces pieces one after the other, as they are or
\* filled up with a letter to LongChars or to LongChars + 1 characters
Questions ==
    LET Pieces ==
            {<<"w", "h", "a", "t">>, <<" ", "w", "h", "a", "t", " ">>,
             <<"W", "h", "a", "t">>, <<" ", "a", "n", "d", " ">>,
             <<" ", "a", "l", "s", "o", " ">>, <<"h", "o", "w">>,
             <<" ", "w", "h", "o", " ">>, <<"d", "o", "s", "e">>}
        RECURSIVE Flatten(_)
        Flatten(parts) ==
            IF parts = <<>> THEN <<>> ELSE Head(parts) \o Flatten(Tail(parts))
        PadTo(text, n) == text \o [i \in 1..(n - Len(text)) |-> "x"]
        short == {Flatten(p) : p \in UNION {[1..n -> Pieces] : n \in 0..MaxPieces}}
    IN short \cup {PadTo(q, n) : q \in short, n \in {LongChars, LongChars + 1}}

\* len(question) > 50, read as len(question) >= 50
LongFromFifty(text) == Len(text) >= 50
LongQuestion(text) == Len(text) > LongChars

\* _is_complex_query: its two counts and what it returns
IsComplexQuery(q) ==
    LET question_lower == Lower(q)
        question_count ==
            Cardinality({word \in question_words : Contains(question_lower, word)})
        indicator_count ==
            Cardinality({indicator \in complexity_indicators :
                           Contains(question_lower, indicator)})
    IN [question_count |-> question_count, indicator_count |-> indicator_count,
        is_complex |-> \/ question_count >= 2
                       \/ indicator_count >= 2
                       \/ (LongQuestion(q) /\ indicator_count >= 1)]

\* pipeline.py 454: self._is_complex_query(question)
IsComplexQueryCall ==
    /\ complexity = None
    /\ complexity' = Some(IsComplexQuery(asked))
    /\ UNCHANGED <<asked, use_orchestrator, orch_calls, orch_depth, routed_questions,
                   sub_i, intermediate_answers, all_sources, simple_run, answer_ret,
                   ans_pc, trajectory, decompose_run, verify_call, raw_answer, cleaned,
                   cleaned_again, storeVars, rrfVars, verVars, embedVars>>

-----------------------------------------------------------------------------
(* GeneratorClient.clean_output *)

MaxFragments == 3   \* fragments a raw output is put together from

\* A text is a sequence of tokens: a word (in lower case, as every pattern but
\* the last is applied with re.IGNORECASE), a digit, a punctuation mark, a
\* blank or a line feed. A pattern is a tree: [op, set, args], with op "tok"
\* (one token of the set), "any" (. under re.DOTALL), "cat", "alt", "star" (the
\* greedy *), "lazy" (*?), "bol" and "eol" (^ and $ under re.MULTILINE), "end"
\* (\Z), "wb" (\b).
\* re: the positions where a match of r that starts at i can end, in the order
\* in which the backtracking matcher tries them (a greedy repetition tries the
\* longer match first, a lazy one the shorter).
Ends(r, text, i) ==
    LET \* \w
        IsWordChar(token) == token \notin {" ", "\n", "[", "]", "(", ")", ",", ":", "."}
        AtWordBoundary(k) ==
            (k > 1 /\ IsWordChar(text[k - 1])) # (k <= Len(text) /\ IsWordChar(text[k]))
        RECURSIVE E(_, _), Continue(_, _)
        E(p, k) ==
            CASE p.op = "tok" ->
                   IF k <= Len(text) /\ text[k] \in p.set THEN <<k + 1>> ELSE <<>>
              [] p.op = "any" -> IF k <= Len(text) THEN <<k + 1>> ELSE <<>>
              [] p.op = "bol" -> IF k = 1 \/ text[k - 1] = "\n" THEN <<k>> ELSE <<>>
              [] p.op = "eol" ->
                   IF k = Len(text) + 1 \/ text[k] = "\n" THEN <<k>> ELSE <<>>
              [] p.op = "end" -> IF k = Len(text) + 1 THEN <<k>> ELSE <<>>
              [] p.op = "wb" -> IF AtWordBoundary(k) THEN <<k>> ELSE <<>>
              [] p.op = "cat" ->
                   IF Len(p.args) = 0 THEN <<k>>
                   ELSE Continue(E(Head(p.args), k),
                                 [op |-> "cat", set |-> {}, args |-> Tail(p.args)])
              [] p.op = "alt" ->
                   IF Len(p.args) = 0 THEN <<>>
                   ELSE E(Head(p.args), k)
                        \o E([op |-> "alt", set |-> {}, args |-> Tail(p.args)], k)
              [] p.op = "star" ->
                   Continue(SelectSeq(E(p.args[1], k), LAMBDA j : j > k), p) \o <<k>>
              [] p.op = "lazy" ->
                   <<k>> \o Continue(SelectSeq(E(p.args[1], k), LAMBDA j : j > k), p)
        Continue(ends, p) ==
            IF Len(ends) = 0 THEN <<>>
            ELSE E(p, Head(ends)) \o Continue(Tail(ends), p)
    IN E(r, i)

\* re.sub(r, repl, text): the leftmost match is replaced and the scan goes on
\* behind it
Sub(r, repl, text) ==
    LET RECURSIVE From(_)
        From(i) ==
            IF i > Len(text) THEN <<>>
            ELSE LET ends == Ends(r, text, i)
                 IN IF Len(ends) = 0 THEN <<text[i]>> \o From(i + 1)
                    ELSE IF ends[1] = i THEN repl \o <<text[i]>> \o From(i + 1)
                    ELSE repl \o From(ends[1])
    IN From(1)

\* the patterns of clean_output, in the order in which it applies them
clean_patterns ==
    LET Tok(set) == [op |-> "tok", set |-> set, args |-> <<>>]
        Lit(token) == Tok({token})
        AnyChar == [op |-> "any", set |-> {}, args |-> <<>>]
        Cat(args) == [op |-> "cat", set |-> {}, args |-> args]
        Alt(args) == [op |-> "alt", set |-> {}, args |-> args]
        Star(r) == [op |-> "star", set |-> {}, args |-> <<r>>]
        Lazy(r) == [op |-> "lazy", set |-> {}, args |-> <<r>>]
        Plus(r) == Cat(<<r, Star(r)>>)
        Opt(r) == Alt(<<r, Cat(<<>>)>>)
        Bol == [op |-> "bol", set |-> {}, args |-> <<>>]
        Eol == [op |-> "eol", set |-> {}, args |-> <<>>]
        EndOfText == [op |-> "end", set |-> {}, args |-> <<>>]
        WordBoundary == [op |-> "wb", set |-> {}, args |-> <<>>]
        Phrase(tokens) == Cat([i \in DOMAIN tokens |-> Lit(tokens[i])])
        WS == Tok({" ", "\n"})
        Digit == Tok({"1", "2"})
        NL == Lit("\n")
        \* \(x\s+\d+(?:,\s*x\s+\d+)*\)
        RoundCitation(word) ==
            Cat(<<Lit("("), Lit(word), Plus(WS), Plus(Digit),
                  Star(Cat(<<Lit(","), Star(WS), Lit(word), Plus(WS), Plus(Digit)>>)),
                  Lit(")")>>)
        \* \[x\s+\d+\]
        SquareCitation(word) ==
            Cat(<<Lit("["), Lit(word), Plus(WS), Plus(Digit), Lit("]")>>)
        \* \[Table\s+Data\]
        TableData == Cat(<<Lit("["), Lit("table"), Plus(WS), Lit("data"), Lit("]")>>)
        \* \bEvidence\s+\d+\b
        BareEvidence ==
            Cat(<<WordBoundary, Lit("evidence"), Plus(WS), Plus(Digit), WordBoundary>>)
        \* x:\s*
        Label(word) == Cat(<<Lit(word), Lit(":"), Star(WS)>>)
        \* Source:\s*|Question:\s*|Context:\s*
        PromptLabels == Alt(<<Label("source"), Label("question"), Label("context")>>)
        \* Source:\s*Context\s*
        SourceContext ==
            Cat(<<Lit("source"), Lit(":"), Star(WS), Lit("context"), Star(WS)>>)
        \* ^Source:\s*Context\s*$
        SourceContextLine == Cat(<<Bol, SourceContext, Eol>>)
        \* \n\s*Sources?\s*:.*$
        SourcesSection ==
            Cat(<<NL, Star(WS), Tok({"source", "sources"}), Star(WS), Lit(":"),
                  Star(AnyChar), Eol>>)
        \* (?:integrates|includes|provides|addresses)
        MetaVerbs == Tok({"integrates", "includes", "provides", "addresses"})
        \* .*?(?:\n\n|\Z)
        ToParagraphEnd == Cat(<<Lazy(AnyChar), Alt(<<Cat(<<NL, NL>>), EndOfText>>)>>)
        meta_patterns ==
            <<Cat(<<Lit("this"), Plus(WS), Opt(Cat(<<Lit("synthesized"), Plus(WS)>>)),
                    Lit("answer"), Plus(WS), MetaVerbs, ToParagraphEnd>>),
              Cat(<<Lit("this"), Plus(WS), Tok({"response", "answer"}), Plus(WS),
                    MetaVerbs, ToParagraphEnd>>),
              Cat(<<Lit("the"), Plus(WS), Opt(Cat(<<Lit("above"), Plus(WS)>>)),
                    Lit("answer"), Plus(WS), MetaVerbs, ToParagraphEnd>>),
              Cat(<<Lit("note"), Lit(":"), Star(WS), Lit("this"), Plus(WS),
                    Lit("answer"), ToParagraphEnd>>),
              Cat(<<Lit("in"), Plus(WS), Lit("summary"), Lit(","), Star(WS),
                    Lit("this"), Plus(WS), Lit("answer"), ToParagraphEnd>>)>>
        \* \n\n(?:This|The|Note:|In summary,).*?(?:integrates|...).*?
        \* (?:information|...).*?(?:all aspects|...).*?\n\n
        MetaParagraph ==
            Cat(<<NL, NL,
                  Alt(<<Lit("this"), Lit("the"), Phrase(<<"note", ":">>),
                        Phrase(<<"in", " ", "summary", ",">>)>>),
                  Lazy(AnyChar),
                  Tok({"integrates", "includes", "provides", "addresses", "combines",
                       "synthesizes"}),
                  Lazy(AnyChar),
                  Tok({"information", "evidence", "sources", "data", "findings"}),
                  Lazy(AnyChar),
                  Alt(<<Phrase(<<"all", " ", "aspects">>), Lit("comprehensive"),
                        Lit("detailed"), Lit("thorough"), Lit("complete")>>),
                  Lazy(AnyChar), NL, NL>>)
        \* Question:\s*.*
        QuestionSection == Cat(<<Label("question"), Star(AnyChar)>>)
        \* ^Context:\s*$
        ContextLine == Cat(<<Bol, Label("context"), Eol>>)
        \* Provide a concise, complete answer and cite sources succinctly\.\s*
        Instruction ==
            Cat(<<Phrase(<<"provide", " ", "a", " ", "concise", ",", " ", "complete",
                           " ", "answer", " ", "and", " ", "cite", " ", "sources", " ",
                           "succinctly", ".">>),
                  Star(WS)>>)
        \* You are a helpful assistant.*?say you don't know\.\s*
        SystemPrompt ==
            Cat(<<Phrase(<<"you", " ", "are", " ", "a", " ", "helpful", " ",
                           "assistant">>),
                  Lazy(AnyChar),
                  Phrase(<<"say", " ", "you", " ", "don't", " ", "know", ".">>),
                  Star(WS)>>)
        \* (Answer:.*?Source:\s*Context\s*){2,}
        PromptEcho == Cat(<<Lit("answer"), Lit(":"), Lazy(AnyChar), SourceContext>>)
        RepeatedPrompt == Cat(<<PromptEcho, PromptEcho, Star(PromptEcho)>>)
        \* \n{3,}
        BlankLines == Cat(<<NL, NL, NL, Star(NL)>>)
    IN [citations |->
            <<SquareCitation("source"), TableData, RoundCitation("source"),
              RoundCitation("evidence"), SquareCitation("evidence"), BareEvidence,
              RoundCitation("part"), SquareCitation("part")>>,
        answer_label |-> Label("answer"),
        prompt_labels |-> PromptLabels,
        sources |-> <<SourceContextLine, SourceContext, SourcesSection>>,
        meta |-> meta_patterns,
        meta_paragraph |-> MetaParagraph,
        prompt |->
            <<QuestionSection, ContextLine, Instruction, SystemPrompt, RepeatedPrompt>>,
        blank_lines |-> BlankLines]

\* clean_output
CleanOutput(text) ==
    LET \* re.sub(r, "", t)
        Remove(r, t) == Sub(r, <<>>, t)
        \* re.split: where the first match of r at or behind position i starts
        \* (0: no match); what is behind the last match of the scan; what is
        \* before the first match
        FirstMatch(r, t, i) ==
            LET starts == {k \in i..Len(t) : Len(Ends(r, t, k)) > 0}
            IN IF starts = {} THEN 0 ELSE CHOOSE k \in starts : \A l \in starts : k <= l
        RECURSIVE LastPart(_, _, _)
        LastPart(r, t, i) ==
            LET k == FirstMatch(r, t, i)
            IN IF k = 0 THEN SubSeq(t, i, Len(t)) ELSE LastPart(r, t, Ends(r, t, k)[1])
        FirstPart(r, t) ==
            LET k == FirstMatch(r, t, 1)
            IN IF k = 0 THEN t ELSE SubSeq(t, 1, k - 1)
        \* str.strip()
        Stripped(t) ==
            LET kept == {i \in DOMAIN t : t[i] \notin {" ", "\n"}}
            IN IF kept = {} THEN <<>>
               ELSE SubSeq(t, CHOOSE i \in kept : \A j \in kept : i <= j,
                              CHOOSE i \in kept : \A j \in kept : j <= i)
        RECURSIVE RemoveAll(_, _)
        \* re.sub(r, "", t) for the patterns one after the other
        RemoveAll(patterns, t) ==
            IF patterns = <<>> THEN t
            ELSE RemoveAll(Tail(patterns), Remove(Head(patterns), t))
        \* generator.py 77-99: the citation markers
        cited == RemoveAll(clean_patterns.citations, text)
        \* generator.py 101-110: the last "Answer:" section up to the next label
        answer ==
            IF FirstMatch(clean_patterns.answer_label, cited, 1) # 0
            THEN FirstPart(clean_patterns.prompt_labels,
                           LastPart(clean_patterns.answer_label, cited, 1))
            ELSE cited
        \* generator.py 112-124: "Source: Context" and the "Sources:" section
        unsourced == RemoveAll(clean_patterns.sources, answer)
        \* generator.py 126-143: the meta-commentary
        plain ==
            Sub(clean_patterns.meta_paragraph, <<"\n", "\n">>,
                RemoveAll(clean_patterns.meta, unsourced))
        \* generator.py 145-178: the prompt echoes
        unprompted == RemoveAll(clean_patterns.prompt, plain)
    \* generator.py 181-184
    IN Stripped(Sub(clean_patterns.blank_lines, <<"\n", "\n">>, unprompted))

\* the raw model outputs: up to MaxFragments fragments one after the other; a
\* fragment is a part of a citation marker, a label echo, the start of a
\* meta-commentary paragraph, a word or a line feed
RawOutputs ==
    LET Fragments ==
            {<<"[", "source", " ">>, <<"1", "]">>, <<"[", "part", " ", "1", "]">>,
             <<"answer", ":">>, <<"question", ":">>, <<"w">>, <<"\n">>,
             <<"this", " ", "answer", " ", "includes">>}
        RECURSIVE Flatten(_)
        Flatten(parts) ==
            IF parts = <<>> THEN <<>> ELSE Head(parts) \o Flatten(Tail(parts))
    IN {Flatten(p) : p \in UNION {[1..n -> Fragments] : n \in 0..MaxFragments}}

\* generator.py 231: self.clean_output(raw_answer)
Clean ==
    /\ cleaned = None
    /\ cleaned' = Some(CleanOutput(raw_answer))
    /\ UNCHANGED <<raw_answer, cleaned_again, use_orchestrator, orch_calls, orch_depth,
                   routed_questions, sub_i, intermediate_answers, all_sources,
                   simple_run, answer_ret, ans_pc, trajectory, decompose_run,
                   verify_call, asked, complexity, storeVars,
                   rrfVars, verVars, embedVars>>

\* clean_output applied to what it returned
CleanAgain ==
    /\ cleaned # None
    /\ cleaned_again = None
    /\ cleaned_again' = Some(CleanOutput(Get(cleaned)))
    /\ UNCHANGED <<raw_answer, cleaned, use_orchestrator, orch_calls, orch_depth,
                   routed_questions, sub_i, intermediate_answers, all_sources,
                   simple_run, answer_ret, ans_pc, trajectory, decompose_run,
                   verify_call, asked, complexity, storeVars,
                   rrfVars, verVars, embedVars>>

-----------------------------------------------------------------------------
(* IngestionPipeline._embed_with_retry *)

MaxEmbedChunks == 2   \* chunks handed to _embed_with_retry
max_retries == 2      \* default of the parameter max_retries
FirstCeiling == 500   \* max_embed_chars = 500
FinalCeiling == 400   \* max_embed_chars = 400, before the last call

\* A chunk is the list of the lengths of its words, which single blanks
\* separate: len(chunk) is their sum plus the blanks.
\* _ensure_chunks_are_safe(chunks, max_chars), with _split_oversized_chunk
EnsureChunksAreSafe(chunks, max_chars) ==
    LET RECURSIVE Sum(_)
        Sum(words) == IF words = <<>> THEN 0 ELSE Head(words) + Sum(Tail(words))
        \* len(" ".join(words))
        ChunkLen(words) == IF words = <<>> THEN 0 ELSE Sum(words) + Len(words) - 1
        \* word[i : i + max_chars] for i in range(0, len(word), max_chars)
        Slices(word) ==
            [i \in 1..((word + max_chars - 1) \div max_chars) |->
                <<IF i * max_chars <= word THEN max_chars
                  ELSE word - (i - 1) * max_chars>>]
        RECURSIVE SplitWords(_, _, _)
        \* the loop of _split_oversized_chunk over the words left
        SplitWords(words, current, split) ==
            IF words = <<>>
            THEN IF current # <<>> THEN Append(split, current) ELSE split
            ELSE LET word == Head(words)
                     word_with_space == (IF current # <<>> THEN 1 ELSE 0) + word
                     flushed == IF current # <<>> THEN Append(split, current) ELSE split
                 IN IF ChunkLen(current) + word_with_space <= max_chars
                    THEN SplitWords(Tail(words), Append(current, word), split)
                    ELSE IF word > max_chars
                    THEN SplitWords(Tail(words), <<>>, flushed \o Slices(word))
                    ELSE SplitWords(Tail(words), <<word>>, flushed)
        RECURSIVE Safe(_)
        Safe(rest) ==
            IF rest = <<>> THEN <<>>
            ELSE (IF ChunkLen(Head(rest)) <= max_chars THEN <<Head(rest)>>
                  ELSE SplitWords(Head(rest), <<>>, <<>>)) \o Safe(Tail(rest))
    IN Safe(chunks)

\* pipeline.py 151-188: one pass of the loop. The chunks are made safe under
\* the current ceiling and embedded. A token-limit ApiRequestFailure before the
\* last attempt lowers the ceiling to int(max_embed_chars * 0.8), re-chunks
\* and goes round again; on the last attempt it leads to the final call. Any
\* other exception is raised.
EmbedAttempt ==
    /\ embed_pc = "try"
    /\ attempt <= max_retries
    /\ LET safe_chunks == EnsureChunksAreSafe(current_chunks, max_embed_chars)
           call == [max_chars |-> max_embed_chars, chunks |-> safe_chunks]
       IN IF safe_chunks = <<>>
          THEN /\ embed_pc' = "returned"
               /\ UNCHANGED <<current_chunks, max_embed_chars, attempt, embed_calls>>
          ELSE /\ embed_calls' = Append(embed_calls, call)
               /\ \E outcome \in {"embeddings", "token limit", "other error"} :
                    CASE outcome = "embeddings" ->
                           /\ embed_pc' = "returned"
                           /\ UNCHANGED <<current_chunks, max_embed_chars, attempt>>
                      [] outcome = "other error" ->
                           /\ embed_pc' = "raised"
                           /\ UNCHANGED <<current_chunks, max_embed_chars, attempt>>
                      [] outcome = "token limit" /\ attempt < max_retries ->
                           /\ max_embed_chars' = (max_embed_chars * 8) \div 10
                           /\ current_chunks' =
                                EnsureChunksAreSafe(current_chunks,
                                                    (max_embed_chars * 8) \div 10)
                           /\ attempt' = attempt + 1
                           /\ embed_pc' = "try"
                      [] OTHER ->
                           /\ embed_pc' = "fallback"
                           /\ UNCHANGED <<current_chunks, max_embed_chars, attempt>>
    /\ UNCHANGED <<storeVars, rrfVars, verVars, use_orchestrator, orch_calls, orch_depth,
                   routed_questions, sub_i, intermediate_answers, all_sources,
                   simple_run, answer_ret, ans_pc, trajectory, decompose_run,
                   verify_call, asked, complexity, raw_answer, cleaned, cleaned_again>>

\* pipeline.py 189-200: the final call, in the handler of the last attempt's
\* token-limit error; what it raises leaves _embed_with_retry
EmbedFallback ==
    /\ embed_pc = "fallback"
    /\ max_embed_chars' = FinalCeiling
    /\ LET safe_chunks == EnsureChunksAreSafe(current_chunks, FinalCeiling)
       IN IF safe_chunks = <<>>
          THEN /\ embed_pc' = "raised"
               /\ UNCHANGED embed_calls
          ELSE /\ embed_calls' =
                    Append(embed_calls, [max_chars |-> FinalCeiling, chunks |-> safe_chunks])
               /\ embed_pc' \in {"returned", "raised"}
    /\ UNCHANGED <<current_chunks, attempt, storeVars, rrfVars, verVars, use_orchestrator,
                   orch_calls, orch_depth, routed_questions, sub_i, intermediate_answers,
                   all_sources, simple_run, answer_ret, ans_pc, trajectory,
                   decompose_run, verify_call, asked, complexity, raw_answer, cleaned,
                   cleaned_again>>

-----------------------------------------------------------------------------
(* The calls at rest *)

AnswerIdle ==
    /\ use_orchestrator = None
    /\ orch_calls = 0
    /\ orch_depth = 0
    /\ routed_questions = <<>>
    /\ sub_i = 0
    /\ intermediate_answers = <<>>
    /\ all_sources = <<>>
    /\ simple_run = None
    /\ answer_ret = [raised |-> FALSE, answer |-> <<>>, sources |-> <<>>, path |-> "none"]
    /\ ans_pc = "idle"
    /\ trajectory = <<>>
    /\ verify_call = None

DecomposeIdle == decompose_run = None

ComplexIdle ==
    /\ asked = <<>>
    /\ complexity = Some([question_count |-> 0, indicator_count |-> 0,
                          is_complex |-> FALSE])

CleanIdle ==
    /\ raw_answer = <<>>
    /\ cleaned = Some(<<>>)
    /\ cleaned_again = Some(<<>>)

EmbedIdle ==
    /\ current_chunks = <<>>
    /\ max_embed_chars = FirstCeiling
    /\ attempt = 0
    /\ embed_calls = <<>>
    /\ embed_pc = "idle"

-----------------------------------------------------------------------------
(* Specifications *)

Init ==
    StoreInit /\ RRFIdle /\ VerifyIdle /\ AnswerIdle /\ DecomposeIdle /\ ComplexIdle /\ CleanIdle /\ EmbedIdle

Next ==
    \/ GetPipelines
    \/ IngestPdf
    \/ FaissSearchCall
    \/ BM25SearchCall
    \/ Answer
    \/ Rerun

Spec == Init /\ [][Next]_vars

InitRRF ==
    StoreIdle /\ RRFInit /\ VerifyIdle /\ AnswerIdle /\ DecomposeIdle /\ ComplexIdle /\ CleanIdle /\ EmbedIdle

NextRRF == ScoreSemantic \/ ScoreKeyword \/ SortAndReturn

SpecRRF == InitRRF /\ [][NextRRF]_vars

InitVerify ==
    StoreIdle /\ RRFIdle /\ VerifyInit /\ AnswerIdle /\ DecomposeIdle /\ ComplexIdle /\ CleanIdle /\ EmbedIdle

NextVerify ==
    \/ Begin
    \/ ClassifyChunk
    \/ Return

SpecVerify == InitVerify /\ [][NextVerify]_vars

\* QueryPipeline.answer is entered with one of the three values of
\* use_orchestrator
InitAnswer ==
    /\ StoreIdle /\ RRFIdle /\ VerifyIdle /\ ComplexIdle /\ CleanIdle /\ EmbedIdle
    /\ use_orchestrator \in {None, Some(TRUE), Some(FALSE)}
    /\ orch_calls = 0
    /\ orch_depth = 0
    /\ routed_questions = <<>>
    /\ sub_i = 0
    /\ intermediate_answers = <<>>
    /\ all_sources = <<>>
    /\ simple_run = None
    /\ answer_ret = [raised |-> FALSE, answer |-> <<>>, sources |-> <<>>, path |-> "none"]
    /\ ans_pc = "call"
    /\ trajectory = <<>>
    /\ decompose_run = None
    /\ verify_call = None

NextAnswer ==
    \/ EnterAnswer
    \/ RouteQueryCall
    \/ SubQuestion
    \/ Synthesize
    \/ StandardPath

SpecAnswer == InitAnswer /\ [][NextAnswer]_vars

InitComplex ==
    /\ StoreIdle /\ RRFIdle /\ VerifyIdle /\ AnswerIdle /\ DecomposeIdle /\ CleanIdle /\ EmbedIdle
    /\ asked \in Questions
    /\ complexity = None

NextComplex == IsComplexQueryCall

SpecComplex == InitComplex /\ [][NextComplex]_vars

InitClean ==
    /\ StoreIdle /\ RRFIdle /\ VerifyIdle /\ AnswerIdle /\ DecomposeIdle /\ ComplexIdle /\ EmbedIdle
    /\ raw_answer \in RawOutputs
    /\ cleaned = None
    /\ cleaned_again = None

NextClean == Clean \/ CleanAgain

SpecClean == InitClean /\ [][NextClean]_vars

\* _embed_with_retry is called with the chunks of a document: up to
\* MaxEmbedChunks chunks, each within the first ceiling, just above it, or far
\* above it, of one or several words
InitEmbed ==
    /\ StoreIdle /\ RRFIdle /\ VerifyIdle /\ AnswerIdle /\ DecomposeIdle /\ ComplexIdle /\ CleanIdle
    /\ current_chunks \in
         UNION {[1..n -> {<<100>>, <<330>>, <<450>>, <<300, 199>>, <<300, 200>>,
                          <<250, 200, 150>>, <<900>>}] : n \in 0..MaxEmbedChunks}
    /\ max_embed_chars = FirstCeiling
    /\ attempt = 0
    /\ embed_calls = <<>>
    /\ embed_pc = "try"

NextEmbed == EmbedAttempt \/ EmbedFallback

SpecEmbed == InitEmbed /\ [][NextEmbed]_vars

\* decompose_query is called and the generator raises or answers with up to
\* MaxLines lines
InitDecompose ==
    /\ StoreIdle /\ RRFIdle /\ VerifyIdle /\ AnswerIdle /\ ComplexIdle /\ CleanIdle
    /\ EmbedIdle
    /\ \E d \in DecomposeResponses(LineShapes) :
         decompose_run = [response |-> d, sub_questions |-> None]

NextDecompose == DecomposeQueryCall

SpecDecompose == InitDecompose /\ [][NextDecompose]_vars


-----------------------------------------------------------------------------
(* Document filter of the two searches *)

\* the chunks a search of the query pipeline's stores can return
FaissSearchable ==
    {session.metadata[i] : i \in 1..Min(FaissRows(stores["query"]), Len(session.metadata))}
BM25Searchable == Range(stores["query"].chunk_map)
SearchableBy(op) == IF op = "faiss_search" THEN FaissSearchable ELSE BM25Searchable

SearchReturned == ret.op \in {"faiss_search", "bm25_search"}

\* C1: whenever a list of allowed doc ids is passed to FaissStore.search or
\* BM25Store.search, the empty list included, every returned hit has a doc_id in
\* that list.
C1_HitsWithinAllowed ==
    (SearchReturned /\ ret.allowed # None) =>
        \A i \in DOMAIN ret.hits : ret.hits[i].doc_id \in Range(Get(ret.allowed))

\* C2: a search with allowed_doc_ids = D (a non-empty list) and top_k = K returns
\* exactly min(K, number of indexed chunks whose doc_id is in D) hits, whatever the
\* ranking.
C2_HitCount ==
    (SearchReturned /\ Truthy(ret.allowed)) =>
        Len(ret.hits) =
            Min(ret.top_k,
                Cardinality({m \in SearchableBy(ret.op) :
                                m.doc_id \in Range(Get(ret.allowed))}))

\* the documents whose ingest_pdf completed with chunks written
Ingested ==
    {d \in Range(ingested_docs) :
        \E i \in DOMAIN session.metadata : session.metadata[i].doc_id = d}

\* C3: once ingest_pdf has completed for a document, every later
\* QueryPipeline.answer call that allows the document retrieves hits from its
\* chunks, in the semantic and in the keyword search, also when the query pipeline
\* was constructed before the ingestion.
C3_AnswerSeesIngested ==
    (ret.op = "answer" /\ Truthy(ret.allowed)) =>
        \A d \in Ingested \cap Range(Get(ret.allowed)) :
            /\ \E i \in DOMAIN ret.hits : ret.hits[i].doc_id = d
            /\ \E i \in DOMAIN ret.keyword : ret.keyword[i].doc_id = d

-----------------------------------------------------------------------------
(* Ingestion: the two indexes and the vector dimension *)

\* id, doc_id and source_uri of a stored chunk
Identity(m) == [id |-> m.id, doc_id |-> m.doc_id, source_uri |-> m.source_uri]

\* the chunks searchable in a pipeline's FaissStore: the rows its index holds
ChunkStoreIds(p) ==
    {Identity(session.metadata[i]) :
        i \in 1..Min(FaissRows(stores[p]), Len(session.metadata))}

\* the chunks searchable in a pipeline's BM25Store
KeywordIndexIds(p) == {Identity(m) : m \in Range(stores[p].chunk_map)}

\* C4: after every ingest_pdf call, completed or failed part-way, the chunk ids
\* searchable in the keyword index are those searchable in the chunk store, with
\* the same doc_id and source_uri.
C4_IndexesAgree ==
    ret.op = "ingest_pdf" =>
        \A p \in Pipelines : KeywordIndexIds(p) = ChunkStoreIds(p)

\* an ingest_pdf that failed in upsert_chunks on a store that holds chunks
C4_Witness ==
    /\ ret.op = "ingest_pdf"
    /\ ret.raised
    /\ ret.reached = "upsert_chunks"
    /\ ChunkStoreIds("ingestion") # {}
    /\ Len(session.metadata) > Cardinality(ChunkStoreIds("ingestion"))

UpsertCalled == ret'.op = "ingest_pdf" /\ ret'.reached \in {"upsert_chunks", "add_chunks"}

\* C5: upsert_chunks with vectors of another length than the stored ones raises
\* when the store is not empty; on an empty store it succeeds and the store's
\* dimension becomes the length of the upserted vectors.
C5_UpsertDimension ==
    [][UpsertCalled =>
         /\ (\E i \in DOMAIN session.embeddings : session.embeddings[i] # ret'.dim)
                => ret'.raised
         /\ session.embeddings = <<>> =>
                /\ ~ret'.raised
                /\ stores'["ingestion"].dim = ret'.dim
                /\ session'.dim = ret'.dim
                /\ stores'["ingestion"].index = Index(ret'.dim, ret'.count)]_vars

\* an upsert raised on a store whose dimension an earlier upsert into the empty
\* store had changed from the configured one
C5_Witness ==
    /\ ret.op = "ingest_pdf"
    /\ ret.raised
    /\ ret.reached = "upsert_chunks"
    /\ stores["ingestion"].dim # embedding_dim
    /\ session.dim = stores["ingestion"].dim

-----------------------------------------------------------------------------
(* Reciprocal rank fusion *)

\* the identity key of a hit: its chunk id, or the first KeyChars characters of
\* its text when the id is missing
IdentityKey(hit) ==
    IF hit.id = <<>> THEN [i \in 1..Min(KeyChars, Len(hit.text)) |-> hit.text[i]]
    ELSE hit.id

SemanticKeys == {IdentityKey(semantic_hits[i]) : i \in DOMAIN semantic_hits}
KeywordKeys == {IdentityKey(keyword_hits[i]) : i \in DOMAIN keyword_hits}

\* start + the sum of 1/(RRF_K + r) over the ranks r <= n of hits that hold key
RECURSIVE RankSum(_, _, _, _)
RankSum(hits, key, n, start) ==
    IF n = 0 THEN start
    ELSE LET rest == RankSum(hits, key, n - 1, start)
         IN IF IdentityKey(hits[n]) = key THEN AddReciprocal(rest, RRF_K + n) ELSE rest

\* the sum over both lists
ExpectedScore(key) ==
    RankSum(keyword_hits, key, Len(keyword_hits),
            RankSum(semantic_hits, key, Len(semantic_hits), Zero))

\* where key is met first when the semantic list is read before the keyword list
FirstSeen(key) ==
    LET both == semantic_hits \o keyword_hits
    IN CHOOSE i \in DOMAIN both :
         /\ IdentityKey(both[i]) = key
         /\ \A j \in 1..(i - 1) : IdentityKey(both[j]) # key

\* C6: every key's accumulated score is the sum of 1/(k + r) over the 1-indexed
\* ranks r at which it appears in the two lists; the output is sorted by that
\* score, descending, and hits of equal score stand in first-insertion order, the
\* semantic list read before the keyword list.
C6_ScoresAndOrder ==
    rrf_pc = "return" =>
        /\ Range(rrf_keys) = SemanticKeys \cup KeywordKeys
        /\ \A i \in DOMAIN rrf_keys : rrf_scores[i] = ExpectedScore(rrf_keys[i])
        /\ \A i \in 1..(Len(fused_hits) - 1) :
              LET a == IdentityKey(fused_hits[i])
                  b == IdentityKey(fused_hits[i + 1])
              IN /\ ~Less(ExpectedScore(a), ExpectedScore(b))
                 /\ ExpectedScore(a) = ExpectedScore(b) => FirstSeen(a) < FirstSeen(b)

\* a fusion with a key in both lists and two output neighbours of equal score, the
\* first of which the keyword list ranks behind the second
C6_Witness ==
    /\ rrf_pc = "return"
    /\ SemanticKeys \cap KeywordKeys # {}
    /\ \E i \in 1..(Len(fused_hits) - 1) :
          /\ ExpectedScore(IdentityKey(fused_hits[i]))
                = ExpectedScore(IdentityKey(fused_hits[i + 1]))
          /\ IdentityKey(keyword_hits[1]) = IdentityKey(fused_hits[i + 1])

\* C7: the output holds no two hits of the same identity key, a chunk id present
\* in both lists appears exactly once, and the output has at most 25 hits.
C7_DistinctAndCapped ==
    rrf_pc = "return" =>
        /\ \A i, j \in DOMAIN fused_hits :
              i # j => IdentityKey(fused_hits[i]) # IdentityKey(fused_hits[j])
        /\ \A key \in SemanticKeys \cap KeywordKeys :
              Cardinality({i \in DOMAIN fused_hits : IdentityKey(fused_hits[i]) = key}) = 1
        /\ Len(fused_hits) <= FusedCap

\* more than 25 keys, some of them in both lists, fused into 25 hits
C7_Witness ==
    /\ rrf_pc = "return"
    /\ Cardinality(SemanticKeys \cup KeywordKeys) > FusedCap
    /\ SemanticKeys \cap KeywordKeys # {}
    /\ Len(fused_hits) = FusedCap

-----------------------------------------------------------------------------
(* Claim verification *)

\* what a classifier call yielded for its chunk, as verify_claim reads it
Yield(o) ==
    IF o.raised THEN "call failed"
    ELSE IF SaysSupports(Normalise(o.response)) THEN "Supports"
    ELSE IF SaysRefutes(Normalise(o.response)) THEN "Refutes"
    ELSE "Not Mentioned"

\* the calls of the running verify_claim that yielded y
Yielding(y) == {n \in DOMAIN outcomes : Yield(outcomes[n]) = y}

First(S) == CHOOSE n \in S : \A m \in S : n <= m

\* the step in which the running verify_claim returns its result
Returning ==
    /\ ver_pc \in {"loop", "return"}
    /\ ver_pc' = "done" \/ claim_i' # claim_i

\* C8: once the classifier has returned Supports for the chunk at index i,
\* verify_claim calls it for no chunk of greater index and returns status Supports
\* with chunk_index i.
C8_StopsAtSupports ==
    [][\A n \in Yielding("Supports") :
          /\ \A m \in DOMAIN calls' : calls'[m] <= calls[n]
          /\ Returning =>
                /\ Get(result').status = "Supports"
                /\ Get(result').chunk_index = calls[n]]_vars

\* three chunks, the second yields Supports: the third was not consulted
C8_Witness ==
    /\ ver_pc = "done"
    /\ source_chunks = 3
    /\ calls = <<0, 1>>
    /\ Yield(outcomes[1]) # "Supports"
    /\ Yield(outcomes[2]) = "Supports"
    /\ result = Some(LoopResult("Supports", 1))

\* C9: for a non-empty chunk list the result of verify_claim is determined by
\* what the chunks yielded: Supports with the index of the first Supports chunk
\* if there is one, else Refutes with the index of the first Refutes chunk if
\* there is one, else Not Mentioned with index -1; a failed call does not end the
\* scan and counts as Not Mentioned.
C9_ResultFromOutcomes ==
    [][Returning =>
         /\ calls = [n \in DOMAIN outcomes |-> n - 1]
         /\ Yielding("Supports") = {} => Len(outcomes) = source_chunks
         /\ Get(result').status =
               IF Yielding("Supports") # {} THEN "Supports"
               ELSE IF Yielding("Refutes") # {} THEN "Refutes"
               ELSE "Not Mentioned"
         /\ Get(result').chunk_index =
               IF Yielding("Supports") # {} THEN First(Yielding("Supports")) - 1
               ELSE IF Yielding("Refutes") # {} THEN First(Yielding("Refutes")) - 1
               ELSE -1]_vars

\* a failed call, then two Refutes: the scan went on and the first Refutes stands
C9_Witness ==
    /\ ver_pc = "done"
    /\ Len(outcomes) = 3
    /\ Yield(outcomes[1]) = "call failed"
    /\ Yield(outcomes[2]) = "Refutes"
    /\ Yield(outcomes[3]) = "Refutes"
    /\ result = Some(LoopResult("Refutes", 1))

\* the confidence the claim gives a status
ClaimedConfidence(status) == IF status = "Supports" THEN "1.0" ELSE "0.5"

\* C10: every result of verify_claim, for an empty chunk list too, and every
\* entry of verify_answer has confidence 1.0 when its status is Supports and 0.5
\* when it is Refutes or Not Mentioned.
C10_Confidence ==
    /\ result # None => Get(result).confidence = ClaimedConfidence(Get(result).status)
    /\ \A n \in DOMAIN verification_results :
          verification_results[n].confidence
            = ClaimedConfidence(verification_results[n].status)

\* C11: verify_answer on an empty source_chunks list returns an empty list and
\* makes no classifier call; on a non-empty list it returns exactly one result
\* per extracted claim, in the order of extraction.
C11_OneEntryPerClaim ==
    entry = "verify_answer" =>
        /\ source_chunks = 0 => verification_results = <<>> /\ calls = <<>>
        /\ \A n \in DOMAIN verification_results : verification_results[n].claim = n
        /\ Len(verification_results) <= claims
        /\ (ver_pc = "done" /\ source_chunks > 0) => Len(verification_results) = claims

\* a verify_answer run over two claims that ended with two different verdicts
C11_Witness ==
    /\ entry = "verify_answer"
    /\ ver_pc = "done"
    /\ source_chunks > 0
    /\ claims = 2
    /\ Len(verification_results) = 2
    /\ verification_results[1].status # verification_results[2].status

-----------------------------------------------------------------------------
(* The orchestrator and the standard path *)

\* C12: in every execution of QueryPipeline.answer, answer_iteratively (and so
\* route_query) is invoked at most once for the top-level question, whatever
\* the sub-questions are and whatever step fails: answering a sub-question
\* never enters the orchestrator again, so the recursion depth is at most 1.
C12_OrchestratorEnteredOnce == orch_calls <= 1 /\ orch_depth <= 1
\* the orchestrator answered two sub-questions through QueryPipeline.answer
C12_Witness ==
    /\ orch_calls = 1
    /\ Len(intermediate_answers) >= 2
    /\ \A n \in DOMAIN intermediate_answers : intermediate_answers[n].type = "TEXT"

\* C13: on the orchestrator path at most 5 sub-questions are retrieved and
\* answered for one query, whatever routing response the generator returns.
C13_AtMostFiveSubQuestions == Len(intermediate_answers) <= MaxSubQuestions

\* C14: for every generator response, route_query returns a non-empty list in
\* which every element has a string question and a type that is exactly TEXT or
\* TABLE.
C14_RoutedWellFormed ==
    LET WellFormed(routed_q) ==
            /\ routed_q.dict
            /\ routed_q.question # None /\ Get(routed_q.question).isstr
            /\ routed_q.type # None /\ Get(routed_q.type) \in {"TEXT", "TABLE"}
    IN ans_pc = "loop" =>
           /\ routed_questions # <<>>
           /\ \A n \in DOMAIN routed_questions : WellFormed(routed_questions[n])

\* C15: when the synthesis generation call raises, answer_iteratively does not
\* raise; it returns the intermediate sub-answers concatenated in sub-question
\* order, with the sources collected so far, each once.
C15_ConcatenationFallback ==
    LET RECURSIVE Flat(_)
        Flat(parts) == IF parts = <<>> THEN <<>> ELSE Head(parts) \o Flat(Tail(parts))
        \* s without repetitions, each element where it first occurs in s
        FirstOccurrences(s) ==
            SelectSeq([i \in DOMAIN s |-> <<s[i], \A j \in 1..(i - 1) : s[j] # s[i]>>],
                      LAMBDA p : p[2])
        first == FirstOccurrences(all_sources)
    IN (ans_pc = "done" /\ answer_ret.path = "concatenation") =>
           /\ ~answer_ret.raised
           /\ SelectSeq(answer_ret.answer, LAMBDA c : c # LineFeed)
                = Flat([n \in DOMAIN intermediate_answers |->
                          intermediate_answers[n].answer])
           /\ answer_ret.sources = [n \in DOMAIN first |-> first[n][1]]
\* the synthesis raised after three sub-questions, with a source cited twice
C15_Witness ==
    /\ ans_pc = "done" /\ answer_ret.path = "concatenation"
    /\ Len(intermediate_answers) >= 3
    /\ intermediate_answers[1].answer # intermediate_answers[2].answer
    /\ Len(answer_ret.sources) < Len(all_sources)
    /\ Len(answer_ret.sources) >= 2

\* C16: when the final answer-generation call of the simple path fails,
\* QueryPipeline.answer does not raise: the failure is not propagated to the
\* caller, who receives a result.
C16_GenerationFailureNotRaised ==
    (/\ simple_run # None
     /\ ~Get(simple_run).steps.retrieval.raised
     /\ Get(simple_run).steps.generation.raised) => ~answer_ret.raised

\* C17: on the simple path a compression call that raises or returns an empty
\* summary makes generation use the raw retrieved contexts; a rerank call that
\* raises or returns an empty list makes the pipeline use the first top_k fused
\* hits in fused order; in neither case does the call abort before generation.
C17_BestEffortSteps ==
    (simple_run # None /\ ~Get(simple_run).steps.retrieval.raised) =>
        LET steps == Get(simple_run).steps
            run == Get(simple_run).run
            fused == steps.retrieval.hits
            used == run.reranked_hits
            CompressionFailed == steps.compression.raised \/ steps.compression.summary = <<>>
            RerankFailed == steps.reranking.raised \/ steps.reranking.hits = <<>>
        IN /\ CompressionFailed =>
                /\ Len(run.effective_contexts) = Len(used)
                /\ \A n \in DOMAIN used : run.effective_contexts[n] = used[n].text
           /\ RerankFailed =>
                /\ Len(used) = Min(TopK, Len(fused))
                /\ \A n \in DOMAIN used : used[n] = fused[n]
           /\ (CompressionFailed \/ RerankFailed) =>
                /\ run.step \in {"generate", "return"}
                /\ run.raised => steps.generation.raised
\* the rerank and the compression both raised on more than top_k fused hits,
\* and the answer was returned
C17_Witness ==
    /\ simple_run # None
    /\ ~Get(simple_run).steps.retrieval.raised
    /\ Get(simple_run).steps.reranking.raised
    /\ Get(simple_run).steps.compression.raised
    /\ Len(Get(simple_run).steps.retrieval.hits) > TopK
    /\ ~answer_ret.raised

-----------------------------------------------------------------------------
(* Complexity of a question *)

\* C18: _is_complex_query(q) is true exactly when at least 2 distinct question
\* words are present in q, or at least 2 complexity indicators are present, or q
\* is longer than 50 characters and has at least 1 indicator.
C18_ComplexExactly ==
    LET WordsPresent == {word \in question_words : Contains(Lower(asked), word)}
        IndicatorsPresent ==
            {indicator \in complexity_indicators : Contains(Lower(asked), indicator)}
    IN complexity # None =>
           (Get(complexity).is_complex <=>
               \/ Cardinality(WordsPresent) >= 2
               \/ Cardinality(IndicatorsPresent) >= 2
               \/ (Len(asked) > 50 /\ Cardinality(IndicatorsPresent) >= 1))
\* a question of exactly 50 characters with one indicator and no question word
C18_Witness ==
    /\ complexity # None
    /\ Len(asked) = 50
    /\ Cardinality({indicator \in complexity_indicators :
                      Contains(Lower(asked), indicator)}) = 1
    /\ {word \in question_words : Contains(Lower(asked), word)} = {}
    /\ ~Get(complexity).is_complex

\* C19: a question that contains the same question word twice and no other
\* question word has a question-word count of 2, so the rule of at least 2
\* question words classifies it as complex.
C19_EachOccurrenceCounts ==
    LET text == Lower(asked)
        \* the places where the word occurs in the text
        Occurrences(word) ==
            {i \in 1..(Len(text) - Len(word) + 1) :
               SubSeq(text, i, i + Len(word) - 1) = word}
        SameWordTwice ==
            \E word \in question_words :
                /\ Cardinality(Occurrences(word)) = 2
                /\ \A other \in question_words \ {word} : Occurrences(other) = {}
    IN (complexity # None /\ SameWordTwice) =>
           Get(complexity).question_count = 2 /\ Get(complexity).is_complex

-----------------------------------------------------------------------------
(* Cleaning of the model output *)

\* C20: clean_output is idempotent: for every raw model output x,
\* clean_output(clean_output(x)) equals clean_output(x).
C20_CleanIdempotent == cleaned_again # None => Get(cleaned_again) = Get(cleaned)

-----------------------------------------------------------------------------
(* Embedding with retries *)

\* C21: when embedding fails with a token-limit error, _embed_with_retry makes
\* at most 2 retries and then one final call at a ceiling of 400 characters; one
\* invocation makes at most 4 embedding calls, and every call made after a
\* failed one is given chunks re-split under a strictly smaller maximum chunk
\* length than the call that just failed.
C21_RetriesShrink ==
    /\ Len(embed_calls) <= max_retries + 2
    /\ Len(embed_calls) = max_retries + 2 =>
         embed_calls[max_retries + 2].max_chars = FinalCeiling
    /\ \A i \in 2..Len(embed_calls) :
         embed_calls[i].max_chars < embed_calls[i - 1].max_chars

-----------------------------------------------------------------------------
(* Queries and the stores *)

\* C22: no call to QueryPipeline.answer, and no search it makes, changes the
\* stored embeddings, the chunk metadata, the FAISS index or the BM25 index:
\* the session entry and the stores of both pipelines are after the call what
\* they were before it, whether the call returned or raised; so the hits of a
\* query are hits of the stores as the next query finds them.
C22_QueriesWriteNothing ==
    [][(ret.op = "none" /\ ret'.op \in {"answer", "faiss_search", "bm25_search"}) =>
         /\ session' = session
         /\ stores' = stores
         /\ ret'.op \in {"answer", "faiss_search"} =>
              \E idxs \in FaissCandidates(stores'["query"], ret'.top_k, ret'.allowed) :
                 ret'.hits = FaissSearch(stores'["query"], session'.metadata, idxs,
                                         ret'.top_k, ret'.allowed)
         /\ ret'.op \in {"answer", "bm25_search"} =>
              \E top_indices \in BM25Candidates(stores'["query"], ret'.top_k,
                                               ret'.allowed) :
                 (IF ret'.op = "answer" THEN ret'.keyword ELSE ret'.hits) =
                    BM25Search(stores'["query"], top_indices, ret'.top_k,
                               ret'.allowed)]_vars
\* an answer that found chunks by both searches, and one that raised, on stores
\* that hold less than the session
C22_Witness ==
    /\ ret.op = "answer"
    /\ \/ ret.hits # <<>> /\ ret.keyword # <<>>
       \/ ret.raised
    /\ FaissRows(stores["query"]) < Len(session.embeddings)

-----------------------------------------------------------------------------
(* The sources of an answer *)

\* C23: the sources list QueryPipeline.answer returns, on the simple and on
\* the orchestrator path, holds no URI twice, holds every URI of the hits the
\* answer was generated from (simple path) or of the sub-questions' sources
\* (orchestrator path), and lists them in the order in which they first occur
\* there.
C23_SourcesOnceInFirstSeenOrder ==
    (ans_pc = "done" /\ ~answer_ret.raised) =>
        LET hits == Get(simple_run).run.reranked_hits
            seen == IF answer_ret.path = "standard"
                    THEN [n \in DOMAIN hits |-> hits[n].source_uri]
                    ELSE all_sources
            sources == answer_ret.sources
            FirstAt(uri) == CHOOSE n \in DOMAIN seen :
                             seen[n] = uri /\ \A m \in 1..(n - 1) : seen[m] # uri
        IN /\ Range(sources) = Range(seen)
           /\ \A i, j \in DOMAIN sources :
                 i < j => (/\ sources[i] # sources[j]
                           /\ FirstAt(sources[i]) < FirstAt(sources[j]))
\* a URI came again after another one, on the standard path and on the
\* orchestrator path
C23_Witness ==
    /\ ans_pc = "done" /\ ~answer_ret.raised
    /\ Len(answer_ret.sources) >= 2
    /\ \/ /\ answer_ret.path = "standard"
          /\ Len(Get(simple_run).run.reranked_hits) > Len(answer_ret.sources)
       \/ /\ answer_ret.path = "synthesis"
          /\ Len(all_sources) > Len(answer_ret.sources)
          /\ all_sources[1] = all_sources[3] /\ all_sources[1] # all_sources[2]

-----------------------------------------------------------------------------
(* Queries on an empty index *)

-----------------------------------------------------------------------------
(* The phases of the orchestrator *)

\* C25: a run of answer_iteratively passes through planning, then routing and
\* decomposition, then the sub-questions one at a time in the order of the
\* routed list, each retrieved and then answered; while sub-questions remain
\* nothing is verified. A run that returns the synthesized answer has answered
\* every sub-question before, then went through verification and the final
\* answer; the verifier, when called, was given the synthesized answer that is
\* returned and the chunks of all sub-answers, concatenated in sub-question
\* order, and it is called whenever there is such a chunk.
C25_PhasesInOrder ==
    LET n == Len(routed_questions)
        types == [i \in DOMAIN trajectory |-> trajectory[i].type]
        \* the entries up to the end of sub-question k
        Upto(k) == [i \in 1..(2 + 2 * k) |->
                      IF i = 1 THEN "planning" ELSE IF i = 2 THEN "decomposition"
                      ELSE IF i % 2 = 1 THEN "retrieval" ELSE "intermediate_answer"]
        RECURSIVE Chunks(_)
        Chunks(k) == IF k = 0 THEN <<>>
                     ELSE Chunks(k - 1) \o intermediate_answers[k].chunks
        InListOrder ==
            /\ Len(intermediate_answers) = sub_i
            /\ \A k \in 1..sub_i :
                  /\ intermediate_answers[k].step = k
                  /\ routed_questions[k].question # None =>
                        intermediate_answers[k].question = Get(routed_questions[k].question)
                  /\ trajectory[2 * k + 1].step = k + 1
                  /\ trajectory[2 * k + 2].step = k + 1
    IN /\ ans_pc = "loop" =>
            /\ types = Upto(sub_i)
            /\ InListOrder
            /\ verify_call = None
       /\ (ans_pc = "done" /\ answer_ret.path = "synthesis") =>
            /\ sub_i = n
            /\ InListOrder
            /\ SubSeq(types, 1, 2 + 2 * n) = Upto(n)
            /\ SubSeq(types, 3 + 2 * n, Len(types)) \in
                  {<<"verification", "verification_result", "final_answer">>,
                   <<"verification", "final_answer">>}
            /\ verify_call = None <=> Chunks(n) = <<>>
            /\ verify_call # None =>
                  /\ Get(verify_call).answer = answer_ret.answer
                  /\ Get(verify_call).source_chunks = Chunks(n)
\* a synthesized answer of three sub-questions, verified against the chunks of
\* the three, which differ
C25_Witness ==
    /\ ans_pc = "done" /\ answer_ret.path = "synthesis"
    /\ Len(intermediate_answers) = 3
    /\ verify_call # None
    /\ Len(Get(verify_call).source_chunks) = 3
    /\ Get(verify_call).source_chunks[1] # Get(verify_call).source_chunks[3]
    /\ Len(trajectory) = 11

-----------------------------------------------------------------------------
(* The sub-questions of a decomposition *)

\* C26: decompose_query returns between 1 and 5 sub-questions: the lines of
\* the response that are at least 10 characters long once bullets and
\* numbering are stripped, the first 5 of them, and the query alone when the
\* generator call failed or no such line is in the response.
C26_LinesOfTenKept ==
    decompose_run.sub_questions # None =>
        LET d == decompose_run.response
            returned == Get(decompose_run.sub_questions)
            kept == SelectSeq([k \in DOMAIN d.lines |-> [line |-> k, len |-> d.lines[k].len]],
                              LAMBDA line : line.len >= 10)
        IN /\ Len(returned) \in 1..5
           /\ returned =
                IF d.raised \/ kept = <<>> THEN <<[isstr |-> TRUE, v |-> 0]>>
                ELSE [i \in 1..Min(Len(kept), 5) |-> [isstr |-> TRUE, v |-> kept[i].line]]

-----------------------------------------------------------------------------
(* An upsert that raises *)

\* C27: an upsert_chunks call that raises leaves the stored embeddings, the
\* chunk metadata and the index of the store as they were before the call.
C27_FailedUpsertWritesNothing ==
    [][(/\ ret.op = "none"
        /\ ret'.op = "ingest_pdf" /\ ret'.raised /\ ret'.reached = "upsert_chunks") =>
          /\ session'.embeddings = session.embeddings
          /\ session'.metadata = session.metadata
          /\ stores'["ingestion"].index = stores["ingestion"].index]_vars

-----------------------------------------------------------------------------
(* The record the fusion keeps *)

\* C28: for a chunk that the semantic and the keyword search both returned,
\* the record _reciprocal_rank_fusion returns is the one of the semantic list,
\* which carries "score" and no "bm25_score"; a returned record that carries
\* "bm25_score" is the keyword record of a chunk the semantic search did not
\* return.
C28_SemanticRecordKept ==
    rrf_pc = "return" =>
        \A i \in DOMAIN fused_hits :
            LET hit == fused_hits[i]
                InSemantic == \E j \in DOMAIN semantic_hits :
                                 HitKey(semantic_hits[j]) = HitKey(hit)
            IN /\ InSemantic => hit.score_key = "score" /\ hit \in Range(semantic_hits)
               /\ hit.score_key = "bm25_score" =>
                     ~InSemantic /\ hit \in Range(keyword_hits)
\* the fusion returned a chunk both searches found and one only the keyword
\* search found
C28_Witness ==
    /\ rrf_pc = "return"
    /\ \E i, j \in DOMAIN fused_hits :
         /\ fused_hits[i].score_key = "score"
         /\ fused_hits[i].id # <<>>
         /\ \E n \in DOMAIN keyword_hits : keyword_hits[n].id = fused_hits[i].id
         /\ fused_hits[j].score_key = "bm25_score"

-----------------------------------------------------------------------------
(* The evidence of the verification *)

\* C29: on the orchestrator path every chunk text handed to the verifier for
\* the synthesized answer is the text of a chunk retrieved from the index for
\* one of the sub-questions, and none is a generated answer of a sub-question,
\* whether the sub-question was a TEXT or a TABLE one.
C29_OnlyRetrievedEvidence ==
    verify_call # None =>
        LET evidence == Get(verify_call).source_chunks
            retrieved == {RagHit(intermediate_answers[k].question.v).text :
                            k \in DOMAIN intermediate_answers}
            generated == {intermediate_answers[k].answer :
                            k \in DOMAIN intermediate_answers}
        IN \A i \in DOMAIN evidence :
              evidence[i] \in retrieved /\ evidence[i] \notin generated

-----------------------------------------------------------------------------
(* The orchestrator raises *)

\* C30: a step of answer_iteratively (routing, a status callback, a TEXT or a
\* TABLE sub-question) either goes on in the orchestrator, returns its answer,
\* or raises, and then the call is on the standard path without having entered
\* the orchestrator again; the next step of the call is the one run of the
\* standard path, whose answer and sources (or whose exception) are what
\* QueryPipeline.answer returns.
C30_FallsBackOnce ==
    [][/\ ans_pc \in {"route", "loop"} =>
            /\ orch_calls' = orch_calls
            /\ ans_pc' \in {"loop", "simple", "done"}
            /\ ans_pc' = "done" => answer_ret'.path \in {"synthesis", "concatenation"}
            /\ ans_pc' = "simple" => simple_run' = None
       /\ (ans_pc = "simple" /\ orch_calls >= 1) =>
            /\ ans_pc' = "done"
            /\ orch_calls' = orch_calls
            /\ simple_run' # None
            /\ LET steps == Get(simple_run').steps
                   run == Get(simple_run').run
                   hits == run.reranked_hits
               IN /\ answer_ret'.path = "standard"
                  /\ answer_ret'.raised = run.raised
                  /\ ~run.raised =>
                       /\ answer_ret'.answer = steps.generation.text
                       /\ answer_ret'.sources =
                            Dedup([n \in DOMAIN hits |-> hits[n].source_uri])]_vars
\* the orchestrator was entered and raised, and the standard path returned an
\* answer with sources
C30_Witness ==
    /\ ans_pc = "done"
    /\ orch_calls = 1
    /\ answer_ret.path = "standard"
    /\ ~answer_ret.raised
    /\ answer_ret.sources # <<>>
=============================================================================
